---- MODULE Spec2Model ----
(***************************************************************************)
(* Design validation core of cutlist-web                                   *)
(* (src/backend/app/services/test_service.py): the scene extraction, the   *)
(* part classifier, the catalog, intersection, stability and connectivity  *)
(* checks and the test-suite orchestrator.                                 *)
(*                                                                         *)
(* Lengths are integers in units of 0.5 mm, so the beam tolerance of       *)
(* 1.0 mm is 2 and the sheet-thickness tolerance of 0.5 mm is 1.  The      *)
(* catalogs are small stock libraries of the shape of the default library  *)
(* of config.py, scaled down so that every ascending triple up to MaxDim   *)
(* can be enumerated.                                                      *)
(***************************************************************************)
EXTENDS Integers, Sequences, FiniteSets, TLC

VARIABLES
    parts_library,   \* get_settings().parts_library: the catalog of this run
    HAS_OCP,         \* module flag set by the import of lines 10-16
    sorted_dims,     \* argument of _classify_part: <<d0, d1, d2>>
    classification,  \* what _classify_part returned (or the exception it raised)
    result,          \* exec_globals['result']: the scene the design code bound
    tests,           \* the list of TestResults built so far
    invoked,         \* the analyses called so far, in call order
    suite,           \* the TestSuiteResult returned (to_dict form)
    code,            \* the design code, given by what executing it does
    extracted,       \* the list returned by a call of _extract_solids
    first_run,       \* the TestSuiteResult of an earlier run on the same code
    is_safe,         \* what _validate_code_safety answered about the code, if called
    exec_globals,    \* the globals the design code was executed with
    traversal,       \* adj, queue and visited of test_connectivity's traversal
    pc               \* position of the modelled call

vars == <<parts_library, HAS_OCP, sorted_dims, classification,
          result, tests, invoked, suite, code, extracted, first_run,
          is_safe, exec_globals, traversal, pc>>

(***************************************************************************)
(* Bounds of the model.                                                    *)
(***************************************************************************)
MaxDim == 20
MaxParts == 3        \* parts of a scene given to the catalog check
MaxSuiteParts == 2   \* parts of a scene given to run_test_suite
MaxVals == 3         \* values of a workplane
MaxGraphParts == 3   \* parts of a scene whose traversal is followed step by step

(***************************************************************************)
(* Catalogs.  A beam definition has the keys of config.py:51-58, the sheet *)
(* definition those of config.py:68-72.                                    *)
(***************************************************************************)
Beam(n, w, h, lo, hi, inc) ==
    [name |-> n, width |-> w, height |-> h,
     min_length |-> lo, max_length |-> hi, length_increment |-> inc]

Plywood(t, mw, mh) == [thickness |-> t, max_width |-> mw, max_height |-> mh]

\* The shape of the default library: a square beam and a beam declared with
\* width > height, neither near the sheet thickness; lengths on the grid.
DefaultLibrary ==
    [beams   |-> << Beam("beam_6x6", 6, 6, 8, 14, 6),
                    Beam("beam_11x6", 11, 6, 8, 14, 6) >>,
     plywood |-> Plywood(1, 14, 18)]

\* Two beams whose cross-sections lie within tolerance of each other, the
\* first with a max_length that is not a stock length, and a sheet whose
\* thickness lies within tolerance of the beams' smaller side.
OverlapLibrary ==
    [beams   |-> << Beam("beam_8x5", 8, 5, 9, 14, 6),
                    Beam("beam_6x9", 6, 9, 8, 20, 7) >>,
     plywood |-> Plywood(4, 12, 16)]

\* No beams at all: only the sheet.
SheetOnlyLibrary ==
    [beams   |-> << >>,
     plywood |-> Plywood(3, 10, 10)]

\* A beam definition with a zero length increment.
ZeroIncrementLibrary ==
    [beams   |-> << Beam("beam_6x6", 6, 6, 8, 14, 0) >>,
     plywood |-> Plywood(1, 14, 18)]

Catalogs == {DefaultLibrary, OverlapLibrary, SheetOnlyLibrary}

AnyCatalogs == Catalogs \cup {ZeroIncrementLibrary}

\* Ascending triples [smallest, middle, largest], as _get_oriented_dims and
\* _get_axis_aligned_dims return them (sorted(...), lines 104 and 116).
SortedTriples ==
    {t \in (0..MaxDim) \X (0..MaxDim) \X (0..MaxDim) : t[1] <= t[2] /\ t[2] <= t[3]}

(***************************************************************************)
(* Part classifier.                                                        *)
(***************************************************************************)
tolerance == 2          \* 1.0 mm
sheet_tolerance == 1    \* 0.5 mm

abs(x) == IF x < 0 THEN 0 - x ELSE x

\* Mutant: the catalog cross-section compared as declared, not sorted.
beam_dims_unsorted(beam) == <<beam.width, beam.height>>

\* sorted([beam['width'], beam['height']])
beam_dims(beam) ==
    IF beam.width <= beam.height THEN <<beam.width, beam.height>>
                                 ELSE <<beam.height, beam.width>>

\* Python's a % b for b > 0: the remainder has the sign of the divisor.
PyMod(a, b) == a % b

\* The length passes the range test of line 170.
InLengthRange(length, beam_def) ==
    ~ (length < beam_def.min_length - tolerance
       \/ length > beam_def.max_length + tolerance)

\* (length - min_l) % inc raises ZeroDivisionError when inc is 0; the range
\* test returns before the division.
IsValidBeamLengthRaises(length, beam_def) ==
    InLengthRange(length, beam_def) /\ beam_def.length_increment = 0

\* Mutant: the upper end of the range test of line 170 dropped.
_is_valid_beam_length_no_max(length, beam_def) ==
    IF length < beam_def.min_length - tolerance
    THEN FALSE
    ELSE LET inc       == beam_def.length_increment
             remainder == PyMod(length - beam_def.min_length, inc)
         IN  remainder <= tolerance \/ remainder >= inc - tolerance

_is_valid_beam_length(length, beam_def) ==
    IF ~ InLengthRange(length, beam_def)
    THEN FALSE
    ELSE LET inc       == beam_def.length_increment
             remainder == PyMod(length - beam_def.min_length, inc)
         IN  remainder <= tolerance \/ remainder >= inc - tolerance

\* The condition of lines 133-134 for one catalog beam.
BeamMatches(dims, beam) ==
    /\ abs(dims[1] - beam_dims(beam)[1]) <= tolerance
    /\ abs(dims[2] - beam_dims(beam)[2]) <= tolerance

\* Index of the beam at which the loop of line 128 returns, 0 when the loop
\* falls through.
FirstBeamMatch(dims, beams) ==
    LET hits == {i \in 1..Len(beams) : BeamMatches(dims, beams[i])}
    IN  IF hits = {} THEN 0
        ELSE CHOOSE i \in hits : \A j \in hits : i <= j

BeamClassification(dims, beam) ==
    IF IsValidBeamLengthRaises(dims[3], beam)
    THEN [type |-> "ZeroDivisionError"]
    ELSE [type          |-> beam.name,
          cross_section |-> <<beam.width, beam.height>>,
          length        |-> dims[3],
          valid_length  |-> _is_valid_beam_length(dims[3], beam),
          beam_def      |-> beam]

\* Mutant: the sheet thickness compared with the beams' tolerance of 1.0 mm.
SheetMatches_beam_tolerance(dims, plywood) ==
    abs(dims[1] - plywood.thickness) <= tolerance

SheetMatches(dims, plywood) ==
    abs(dims[1] - plywood.thickness) <= sheet_tolerance

\* Mutant: width and height limits exchanged.
SheetClassification_swapped(dims, plywood) ==
    [type       |-> "plywood",
     thickness  |-> dims[1],
     width      |-> dims[2],
     height     |-> dims[3],
     valid_size |-> dims[2] <= plywood.max_height /\ dims[3] <= plywood.max_width]

SheetClassification(dims, plywood) ==
    [type       |-> "plywood",
     thickness  |-> dims[1],
     width      |-> dims[2],
     height     |-> dims[3],
     valid_size |-> dims[2] <= plywood.max_width /\ dims[3] <= plywood.max_height]

UnknownClassification(dims) == [type |-> "unknown", dimensions |-> dims]

\* Mutant: the final return of lines 158-161 missing (the function falls off
\* its end and returns None).
_classify_part_no_fallthrough(dims, lib) ==
    LET i == FirstBeamMatch(dims, lib.beams)
    IN  IF i # 0 THEN BeamClassification(dims, lib.beams[i])
        ELSE IF SheetMatches(dims, lib.plywood)
             THEN SheetClassification(dims, lib.plywood)
             ELSE [type |-> "None"]

_classify_part(dims, lib) ==
    LET i == FirstBeamMatch(dims, lib.beams)
    IN  IF i # 0 THEN BeamClassification(dims, lib.beams[i])
        ELSE IF SheetMatches(dims, lib.plywood)
             THEN SheetClassification(dims, lib.plywood)
             ELSE UnknownClassification(dims)

(***************************************************************************)
(* Solids and scenes.  A solid is what the geometry kernel answers about   *)
(* it; << >> stands for a call that raises:                                *)
(*   obb     the oriented box lengths <<x_len, y_len, z_len>> of AddOBB    *)
(*   bb      BoundingBox(): <<xmin, xmax, ymin, ymax, zmin, zmax>>         *)
(*   volume  <<Volume()>>                                                  *)
(*   center  Center(): <<x, y, z>>                                         *)
(* A scene is the value the design code bound to `result`: a compound of   *)
(* solids, or a value of a type _extract_solids does not know.  Per pair   *)
(* of solids (i < j) the kernel answers                                    *)
(*   overlap[<<i, j>>]   the intersection: << >> when there is none or the *)
(*                       boolean operation fails, else <<its volume>> in   *)
(*                       units of 0.5 mm^3                                 *)
(*   distance[<<i, j>>]  << >> when the distance computation fails, else   *)
(*                       <<minimum distance>> in units of 0.1 mm           *)
(***************************************************************************)
None == << >>

Solid(obb, bb, volume, center) ==
    [obb |-> obb, bb |-> bb, volume |-> volume, center |-> center]

Pairs(n) == {p \in (1..n) \X (1..n) : p[1] < p[2]}

Compound(solids, overlap, distance) ==
    [shape |-> "Compound", solids |-> solids,
     overlap |-> overlap, distance |-> distance]

UnknownResult == [shape |-> "object"]

\* Mutant: the part numbers go on counting from one run to the next.
PartName_counted_over_runs(i) ==
    "part_" \o ToString(IF first_run = [returned |-> FALSE] THEN i ELSE i + 1)

\* 'part_<i>'
PartName(i) == "part_" \o ToString(i)

Part(solid, name) == [solid |-> solid, name |-> name]

\* solid.move(loc): a location is <<dx>>, a translation along x in units of
\* 0.5 mm; the bounding box and the centre move with the solid.
Moved(solid, dx) ==
    [solid EXCEPT
        !.bb = IF @ = None THEN None
               ELSE <<@[1] + dx, @[2] + dx, @[3], @[4], @[5], @[6]>>,
        !.center = IF @ = None THEN None ELSE <<@[1] + dx, @[2], @[3]>>]

\* Lines 227-254: no location or the identity leave the solid as it is.
apply_location_to_solid(solid, loc) ==
    IF loc = None THEN solid
    ELSE IF loc[1] = 0 THEN solid
    ELSE Moved(solid, loc[1])

\* Mutant: the index suffix added to the only solid of a node as well.
NodeParts_always_suffixed(node) ==
    IF node.solids # << >>
    THEN [idx \in 1..Len(node.solids) |->
            Part(apply_location_to_solid(node.solids[idx], node.loc),
                 node.name \o "_" \o ToString(idx))]
    ELSE << Part(apply_location_to_solid(node.val, node.loc), node.name) >>

\* Lines 266-292: the parts of one assembly node whose object could be
\* read.  node.solids is what Solids() returns, node.val the object itself,
\* node.loc the node's own location (line 260).
NodeParts(node) ==
    IF node.solids # << >>
    THEN [idx \in 1..Len(node.solids) |->
            Part(apply_location_to_solid(node.solids[idx], node.loc),
                 IF Len(node.solids) > 1
                 THEN node.name \o "_" \o ToString(idx)
                 ELSE node.name)]
    ELSE << Part(apply_location_to_solid(node.val, node.loc), node.name) >>

\* The loop of lines 257-296 from node k on.  A node without object is
\* passed over; an exception under a Workplane object is caught per node
\* (lines 265, 281-282); Solids() of any other object is called outside a
\* try block (line 284), so its exception leaves the loop.
RECURSIVE AssemblyParts(_, _, _)
AssemblyParts(nodes, k, parts) ==
    IF k > Len(nodes) THEN [parts |-> parts, raised |-> FALSE]
    ELSE IF nodes[k].obj = "None" THEN AssemblyParts(nodes, k + 1, parts)
    ELSE IF nodes[k].obj = "Workplane"
    THEN IF nodes[k].raises
         THEN AssemblyParts(nodes, k + 1, parts)
         ELSE AssemblyParts(nodes, k + 1, parts \o NodeParts(nodes[k]))
    ELSE IF nodes[k].raises
         THEN [parts |-> parts, raised |-> TRUE]
         ELSE AssemblyParts(nodes, k + 1, parts \o NodeParts(nodes[k]))

\* 'part_<i>' for the solids of a list.
Numbered(solids, from) ==
    [i \in 1..Len(solids) |-> Part(solids[i], PartName(from + i))]

\* The loop of lines 322-336 from value k on; Solids() is called outside a
\* try block, so its exception ends the extraction with the parts so far.
RECURSIVE WorkplaneParts(_, _, _)
WorkplaneParts(vals, k, parts) ==
    IF k > Len(vals) THEN parts
    ELSE IF vals[k].raises THEN parts
    ELSE IF vals[k].solids # << >>
    THEN WorkplaneParts(vals, k + 1, parts \o Numbered(vals[k].solids, Len(parts)))
    ELSE WorkplaneParts(vals, k + 1, parts \o Numbered(<<vals[k].val>>, Len(parts)))

\* Lines 179-365.  Case 1 (lines 200-311): an assembly yields the parts of
\* its nodes and, when there are none, the solids of toCompound()
\* (scene.compound, None when it raises); the except clause of lines
\* 362-363 returns the parts appended so far.  Case 2 (lines 314-338): a
\* workplane.  Case 4 (lines 349-352): a compound yields its solids as
\* part_1, part_2, ...  Case 5 (lines 355-357): a single solid.  An object
\* of no known type yields no part (lines 359-360).
_extract_solids(scene) ==
    IF scene.shape = "Assembly"
    THEN LET r == AssemblyParts(scene.nodes, 1, << >>)
         IN  IF r.raised THEN r.parts
             ELSE IF r.parts # << >> THEN r.parts
             ELSE IF scene.compound = None THEN << >>
             ELSE Numbered(scene.compound, 0)
    ELSE IF scene.shape = "Workplane"
    THEN WorkplaneParts(scene.vals, 1, << >>)
    ELSE IF scene.shape = "Compound"
    THEN [i \in 1..Len(scene.solids) |->
            [solid |-> scene.solids[i], name |-> PartName(i)]]
    ELSE IF scene.shape = "Solid"
    THEN << Part(scene.solid, "part_1") >>
    ELSE << >>

\* sorted() of three numbers.
sorted(t) ==
    LET lo == CHOOSE i \in 1..3 : \A j \in 1..3 : t[i] <= t[j]
        hi == CHOOSE i \in (1..3) \ {lo} : \A j \in (1..3) \ {lo} : t[i] >= t[j]
        mid == CHOOSE i \in (1..3) \ {lo, hi} : TRUE
    IN  <<t[lo], t[mid], t[hi]>>

\* Lines 111-119: the lengths of the axis-aligned bounding box, sorted; None
\* when BoundingBox() raises.
_get_axis_aligned_dims(solid) ==
    IF solid.bb = None
    THEN None
    ELSE sorted(<<solid.bb[2] - solid.bb[1],
                  solid.bb[4] - solid.bb[3],
                  solid.bb[6] - solid.bb[5]>>)

\* Lines 63-108: the oriented box when OCP is there and AddOBB succeeds, the
\* axis-aligned fallback otherwise.
_get_oriented_dims(solid) ==
    IF ~ HAS_OCP THEN _get_axis_aligned_dims(solid)
    ELSE IF solid.obb = None THEN _get_axis_aligned_dims(solid)
    ELSE sorted(solid.obb)

(***************************************************************************)
(* TestResult and the catalog constraint check.                            *)
(***************************************************************************)
PASSED == "passed"
FAILED == "failed"
SKIPPED == "skipped"
ERROR == "error"
TestStatus == {PASSED, FAILED, SKIPPED, ERROR}

NoDetails == [none |-> TRUE]

TestResult(name, status, message, details, long_message) ==
    [name |-> name, status |-> status, message |-> message,
     details |-> details, long_message |-> long_message]

\* Lines 423-438: the part_info entries, in part order; a part whose
\* dimensions are None is passed over (line 429).
RECURSIVE PartsInfo(_, _, _)
PartsInfo(parts, lib, i) ==
    IF i > Len(parts) THEN << >>
    ELSE LET dims == _get_oriented_dims(parts[i].solid)
         IN  IF dims = None
             THEN PartsInfo(parts, lib, i + 1)
             ELSE << [index          |-> i,
                      name           |-> parts[i].name,
                      dimensions     |-> dims,
                      classification |-> _classify_part(dims, lib)] >>
                  \o PartsInfo(parts, lib, i + 1)

\* Mutant: the size check of the sheet branch (lines 441-446) left out.
Violation_no_sheet_branch(info) ==
    LET c == info.classification
    IN  IF c.type = "plywood"
        THEN << >>
        ELSE IF c.type = "unknown"
        THEN << <<info.name, "Unrecognized part">> >>
        ELSE IF "valid_length" \in DOMAIN c /\ ~ c.valid_length
        THEN << <<info.name, "length is not in valid range">> >>
        ELSE << >>

\* Mutant: the beam branch of lines 452-462 left out.
Violation_no_beam_branch(info) ==
    LET c == info.classification
    IN  IF c.type = "plywood"
        THEN IF ~ c.valid_size
             THEN << <<info.name, "Plywood size exceeds maximum">> >>
             ELSE << >>
        ELSE IF c.type = "unknown"
        THEN << <<info.name, "Unrecognized part">> >>
        ELSE << >>

\* Lines 441-462: the violation message of one classified part, if any.  A
\* message is the part's name and what is wrong with it.
Violation(info) ==
    LET c == info.classification
    IN  IF c.type = "plywood"
        THEN IF ~ c.valid_size
             THEN << <<info.name, "Plywood size exceeds maximum">> >>
             ELSE << >>
        ELSE IF c.type = "unknown"
        THEN << <<info.name, "Unrecognized part">> >>
        ELSE IF "valid_length" \in DOMAIN c /\ ~ c.valid_length
        THEN << <<info.name, "length is not in valid range">> >>
        ELSE << >>

RECURSIVE Violations(_, _)
Violations(parts_info, k) ==
    IF k > Len(parts_info) THEN << >>
    ELSE Violation(parts_info[k]) \o Violations(parts_info, k + 1)

\* Lines 478-481: part_summary, the number of parts of each type.
PartSummary(parts_info) ==
    LET types == {parts_info[k].classification.type : k \in 1..Len(parts_info)}
    IN  [t \in types |->
            Cardinality({k \in 1..Len(parts_info) :
                            parts_info[k].classification.type = t})]

\* _classify_part raises inside the loop: test_parts_in_library has no
\* try/except, so the exception leaves it.
TestPartsInLibraryRaises(scene, lib) ==
    LET parts_info == PartsInfo(_extract_solids(scene), lib, 1)
    IN  \E k \in 1..Len(parts_info) :
            parts_info[k].classification.type = "ZeroDivisionError"

test_parts_in_library(scene, lib) ==
    LET parts      == _extract_solids(scene)
        parts_info == PartsInfo(parts, lib, 1)
        violations == Violations(parts_info, 1)
    IN  IF parts = << >>
        THEN TestResult("Parts in Library", SKIPPED,
                        "No individual parts found to analyze", NoDetails, None)
        ELSE IF violations # << >>
        THEN TestResult("Parts in Library", FAILED,
                        "part violation(s) found: ",
                        [violations     |-> violations,
                         parts_analyzed |-> Len(parts_info),
                         parts          |-> parts_info],
                        violations)
        ELSE TestResult("Parts in Library", PASSED,
                        "All parts meet constraints",
                        [parts_analyzed |-> Len(parts_info),
                         summary        |-> PartSummary(parts_info),
                         parts          |-> parts_info],
                        None)

(***************************************************************************)
(* SpecClassify: _classify_part applied to every ascending triple under    *)
(* every catalog (SpecClassifyAny: the zero-increment catalog included).   *)
(***************************************************************************)
NotClassified == [type |-> "not classified"]
NoScene == [shape |-> "None"]
NoSuite == [returned |-> FALSE]
NoCode == [outcome |-> "none", scene |-> NoScene]

InitClassifyIn(libs) ==
    /\ parts_library \in libs
    /\ HAS_OCP = TRUE
    /\ sorted_dims \in SortedTriples
    /\ classification = NotClassified
    /\ result = NoScene
    /\ tests = << >>
    /\ invoked = << >>
    /\ suite = NoSuite
    /\ code = NoCode
    /\ extracted = << >>
    /\ first_run = NoSuite
    /\ is_safe = None
    /\ exec_globals = None
    /\ traversal = None
    /\ pc = "classify"

Classify ==
    /\ pc = "classify"
    /\ classification' = _classify_part(sorted_dims, parts_library)
    /\ pc' = "classified"
    /\ UNCHANGED <<parts_library, HAS_OCP, sorted_dims, result, tests, invoked, suite,
                   code, extracted, first_run,
                   is_safe, exec_globals, traversal>>

InitClassify == InitClassifyIn(Catalogs)
InitClassifyAny == InitClassifyIn(AnyCatalogs)

SpecClassify == InitClassify /\ [][Classify]_vars
SpecClassifyAny == InitClassifyAny /\ [][Classify]_vars

(***************************************************************************)
(* Pairwise intersection check.                                            *)
(***************************************************************************)
\* _get_solid_volume (lines 497-506): 0.0 when Volume() raises.
_get_solid_volume(solid) == IF solid.volume = None THEN 0 ELSE solid.volume[1]

intersection_threshold == 2     \* 1.0 mm^3 in units of 0.5 mm^3

\* What the kernel answers when asked for the intersection of a pair: the
\* boolean operation raises (KernelRaises), there is nothing (None), or a
\* shape [volume |-> v] whose Volume() gives v[1], or raises when v is None.
KernelRaises == [raises |-> TRUE]

\* Lines 509-545: None when the operation raises or gives nothing.
_compute_intersection(scene, i, j) ==
    IF scene.overlap[<<i, j>>] = KernelRaises THEN None
    ELSE scene.overlap[<<i, j>>]

\* Mutant: a volume equal to the threshold is a violation too.
IntersectionEntry_at_threshold(scene, parts, i, j) ==
    LET intersection == _compute_intersection(scene, i, j)
    IN  IF intersection = None THEN << >>
        ELSE IF _get_solid_volume(intersection) >= intersection_threshold
        THEN << [part1 |-> i, part2 |-> j,
                 name1 |-> parts[i].name, name2 |-> parts[j].name,
                 volume |-> _get_solid_volume(intersection)] >>
        ELSE << >>

\* Lines 573-594 for the pair (i, j): the entry appended to `intersections`,
\* if any.
IntersectionEntry(scene, parts, i, j) ==
    LET intersection == _compute_intersection(scene, i, j)
    IN  IF intersection = None THEN << >>
        ELSE IF _get_solid_volume(intersection) > intersection_threshold
        THEN << [part1 |-> i, part2 |-> j,
                 name1 |-> parts[i].name, name2 |-> parts[j].name,
                 volume |-> _get_solid_volume(intersection)] >>
        ELSE << >>

\* The loops of lines 563-564 from the pair (i, j) on.
RECURSIVE Intersections(_, _, _, _)
Intersections(scene, parts, i, j) ==
    IF i > Len(parts) THEN << >>
    ELSE IF j > Len(parts) THEN Intersections(scene, parts, i + 1, i + 2)
    ELSE IntersectionEntry(scene, parts, i, j)
         \o Intersections(scene, parts, i, j + 1)

\* checked_pairs (line 565): one more for every pair the loops reach.
RECURSIVE CheckedPairs(_, _, _)
CheckedPairs(n, i, j) ==
    IF i > n THEN 0
    ELSE IF j > n THEN CheckedPairs(n, i + 1, i + 2)
    ELSE 1 + CheckedPairs(n, i, j + 1)

\* Mutant: a scene without parts skips the check, as the other analyses do.
test_no_intersections_skips_empty(scene) ==
    LET parts         == _extract_solids(scene)
        n             == Len(parts)
        intersections == Intersections(scene, parts, 1, 2)
        checked_pairs == CheckedPairs(n, 1, 2)
    IN  IF n = 0
        THEN TestResult("No Part Intersections", SKIPPED,
                        "No parts found to test", NoDetails, None)
        ELSE IF n < 2
        THEN TestResult("No Part Intersections", PASSED,
                        "Less than 2 parts, no intersections possible",
                        NoDetails, None)
        ELSE IF intersections # << >>
        THEN TestResult("No Part Intersections", FAILED,
                        "intersection(s) found between parts: ",
                        [intersections |-> intersections,
                         intersection_descriptions |->
                            [k \in 1..Len(intersections) |->
                                <<intersections[k].name1, intersections[k].name2,
                                  intersections[k].volume>>],
                         pairs_checked |-> checked_pairs],
                        [k \in 1..Len(intersections) |->
                            <<intersections[k].name1, intersections[k].name2,
                              intersections[k].volume>>])
        ELSE TestResult("No Part Intersections", PASSED,
                        "No intersections found",
                        [pairs_checked |-> checked_pairs], None)

\* Lines 548-624.
test_no_intersections(scene) ==
    LET parts         == _extract_solids(scene)
        n             == Len(parts)
        intersections == Intersections(scene, parts, 1, 2)
        checked_pairs == CheckedPairs(n, 1, 2)
    IN  IF n < 2
        THEN TestResult("No Part Intersections", PASSED,
                        "Less than 2 parts, no intersections possible",
                        NoDetails, None)
        ELSE IF intersections # << >>
        THEN TestResult("No Part Intersections", FAILED,
                        "intersection(s) found between parts: ",
                        [intersections |-> intersections,
                         intersection_descriptions |->
                            [k \in 1..Len(intersections) |->
                                <<intersections[k].name1, intersections[k].name2,
                                  intersections[k].volume>>],
                         pairs_checked |-> checked_pairs],
                        [k \in 1..Len(intersections) |->
                            <<intersections[k].name1, intersections[k].name2,
                              intersections[k].volume>>])
        ELSE TestResult("No Part Intersections", PASSED,
                        "No intersections found",
                        [pairs_checked |-> checked_pairs], None)

(***************************************************************************)
(* Connectivity check.                                                     *)
(***************************************************************************)
connect_tolerance == 1          \* 0.1 mm in units of 0.1 mm

\* Lines 629-643, without OCP: the bounding boxes overlap when grown by the
\* tolerance (coordinates are in units of 0.5 mm = 5 * 0.1 mm); False when
\* BoundingBox() raises.
BoxesOverlap(bb1, bb2) ==
    /\ 5 * bb1[1] - connect_tolerance <= 5 * bb2[2]
    /\ 5 * bb1[2] + connect_tolerance >= 5 * bb2[1]
    /\ 5 * bb1[3] - connect_tolerance <= 5 * bb2[4]
    /\ 5 * bb1[4] + connect_tolerance >= 5 * bb2[3]
    /\ 5 * bb1[5] - connect_tolerance <= 5 * bb2[6]
    /\ 5 * bb1[6] + connect_tolerance >= 5 * bb2[5]

\* Mutant: a pair whose distance cannot be computed counts as connected.
_are_parts_connected_unless_known_apart(scene, i, j) ==
    IF ~ HAS_OCP
    THEN IF scene.solids[i].bb = None \/ scene.solids[j].bb = None
         THEN TRUE
         ELSE BoxesOverlap(scene.solids[i].bb, scene.solids[j].bb)
    ELSE IF scene.distance[<<i, j>>] = None
         THEN TRUE
         ELSE scene.distance[<<i, j>>][1] <= connect_tolerance

\* Lines 627-660 for parts i < j of the scene.
_are_parts_connected(scene, i, j) ==
    IF ~ HAS_OCP
    THEN IF scene.solids[i].bb = None \/ scene.solids[j].bb = None
         THEN FALSE
         ELSE BoxesOverlap(scene.solids[i].bb, scene.solids[j].bb)
    ELSE IF scene.distance[<<i, j>>] = None
         THEN FALSE
         ELSE scene.distance[<<i, j>>][1] <= connect_tolerance

\* Lines 682-690: adj[u], ascending as the loops append it.
RECURSIVE AscendingFrom(_, _, _)
AscendingFrom(S, k, n) ==
    IF k > n THEN << >>
    ELSE (IF k \in S THEN <<k>> ELSE << >>) \o AscendingFrom(S, k + 1, n)

\* Mutant: only adj[i].append(j), the edge is not entered for j.
Adjacency_forward_only(scene, n) ==
    [u \in 1..n |->
        AscendingFrom({v \in 1..n : u < v /\ _are_parts_connected(scene, u, v)}, 1, n)]

Adjacency(scene, n) ==
    [u \in 1..n |->
        AscendingFrom({v \in 1..n :
                          \/ u < v /\ _are_parts_connected(scene, u, v)
                          \/ v < u /\ _are_parts_connected(scene, v, u)}, 1, n)]

\* Mutant: every neighbour is appended, visited or not.
Unvisited_unmarked(neighbours, visited, k) == neighbours

\* Lines 699-702 for one u: the neighbours not yet visited, in list order.
RECURSIVE Unvisited(_, _, _)
Unvisited(neighbours, visited, k) ==
    IF k > Len(neighbours) THEN << >>
    ELSE IF neighbours[k] \in visited
         THEN Unvisited(neighbours, visited, k + 1)
         ELSE <<neighbours[k]>>
              \o Unvisited(neighbours, visited \cup {neighbours[k]}, k + 1)

\* The while loop of lines 697-702: the set of visited parts at its end.
RECURSIVE BFS(_, _, _)
BFS(adj, queue, visited) ==
    IF queue = << >> THEN visited
    ELSE LET u   == Head(queue)
             new == Unvisited(adj[u], visited, 1)
         IN  BFS(adj, Tail(queue) \o new,
                 visited \cup {new[k] : k \in 1..Len(new)})

test_connectivity(scene) ==
    LET parts   == _extract_solids(scene)
        n       == Len(parts)
        visited == BFS(Adjacency(scene, n), <<1>>, {1})
        disconnected_indices == AscendingFrom((1..n) \ visited, 1, n)
        disconnected_names ==
            [k \in 1..Len(disconnected_indices) |-> parts[disconnected_indices[k]].name]
    IN  IF n = 0
        THEN TestResult("Part Connectivity", SKIPPED,
                        "No parts found to test", NoDetails, None)
        ELSE IF n = 1
        THEN TestResult("Part Connectivity", PASSED,
                        "Single part is inherently connected", NoDetails, None)
        ELSE IF visited = 1..n
        THEN TestResult("Part Connectivity", PASSED,
                        "All parts are connected",
                        [component_count |-> 1], None)
        ELSE TestResult("Part Connectivity", FAILED,
                        IF Len(disconnected_names) <= 3
                        THEN "Detached parts: " ELSE "Found detached parts",
                        [disconnected_parts |-> disconnected_names],
                        disconnected_names)

(***************************************************************************)
(* Static stability check.  The centre of mass is kept as the weighted sum *)
(* and the total volume; comparisons with it are multiplied through by the *)
(* (positive) total volume.                                                *)
(***************************************************************************)
ground_tolerance == 2           \* 1.0 mm

SetMin(S) == CHOOSE x \in S : \A y \in S : x <= y
SetMax(S) == CHOOSE x \in S : \A y \in S : x >= y

\* The parts that enter the centre of mass (lines 759-761).
Massive(parts) == {i \in 1..Len(parts) : _get_solid_volume(parts[i].solid) > 0}

\* A geometry call of the check raises: Center() of a part with positive
\* volume (line 763), or, once the total volume is positive, BoundingBox()
\* of any part (lines 786, 796).
StabilityRaises(parts) ==
    \/ \E i \in Massive(parts) : parts[i].solid.center = None
    \/ /\ Massive(parts) # {}
       /\ \E i \in 1..Len(parts) : parts[i].solid.bb = None

\* Mutant: only the parts exactly at the lowest z are support parts.
GroundParts_lowest_only(parts) ==
    LET min_z == SetMin({parts[i].solid.bb[5] : i \in 1..Len(parts)})
    IN  {i \in 1..Len(parts) : parts[i].solid.bb[5] = min_z}

\* Mutant: the ground taken at z = 0 instead of at the lowest bounding box.
GroundParts_absolute_ground(parts) ==
    {i \in 1..Len(parts) : parts[i].solid.bb[5] <= ground_tolerance}

\* Lines 784-797: the parts whose bounding box starts within 1.0 mm of the
\* lowest z of all bounding boxes.
GroundParts(parts) ==
    LET min_z == SetMin({parts[i].solid.bb[5] : i \in 1..Len(parts)})
        ground_threshold == min_z + ground_tolerance
    IN  {i \in 1..Len(parts) : parts[i].solid.bb[5] <= ground_threshold}

RECURSIVE Sum(_, _)
Sum(f, D) ==
    IF D = {} THEN 0
    ELSE LET x == CHOOSE x \in D : TRUE IN f[x] + Sum(f, D \ {x})

\* Mutant: the verdict taken on the y axis alone.
test_static_stability_y_only(scene) ==
    LET parts == _extract_solids(scene)
        n     == Len(parts)
        vol   == [i \in 1..n |-> _get_solid_volume(parts[i].solid)]
        total_volume == Sum(vol, Massive(parts))
        weighted(axis) ==
            Sum([i \in 1..n |-> parts[i].solid.center[axis] * vol[i]], Massive(parts))
        support == GroundParts(parts)
        base_min_x == SetMin({parts[i].solid.bb[1] : i \in support})
        base_max_x == SetMax({parts[i].solid.bb[2] : i \in support})
        base_min_y == SetMin({parts[i].solid.bb[3] : i \in support})
        base_max_y == SetMax({parts[i].solid.bb[4] : i \in support})
        is_stable_x == /\ base_min_x * total_volume <= weighted(1)
                       /\ weighted(1) <= base_max_x * total_volume
        is_stable_y == /\ base_min_y * total_volume <= weighted(2)
                       /\ weighted(2) <= base_max_y * total_volume
        \* min_margin * total_volume
        min_margin == SetMin({weighted(1) - base_min_x * total_volume,
                              base_max_x * total_volume - weighted(1),
                              weighted(2) - base_min_y * total_volume,
                              base_max_y * total_volume - weighted(2)})
        details == [center_of_mass |-> <<weighted(1), weighted(2), weighted(3)>>,
                    total_volume   |-> total_volume,
                    base_bounds    |-> [x_range |-> <<base_min_x, base_max_x>>,
                                        y_range |-> <<base_min_y, base_max_y>>],
                    margin         |-> min_margin]
    IN  IF n = 0
        THEN TestResult("Static Stability", SKIPPED,
                        "No parts found to test", NoDetails, None)
        ELSE IF StabilityRaises(parts)
        THEN TestResult("Static Stability", ERROR,
                        "Error running stability test", NoDetails, None)
        ELSE IF total_volume <= 0
        THEN TestResult("Static Stability", SKIPPED,
                        "Could not calculate volume of parts", NoDetails, None)
        ELSE IF support = {}
        THEN TestResult("Static Stability", FAILED,
                        "No parts found touching the ground (floating object?)",
                        NoDetails, None)
        ELSE IF is_stable_y
        THEN TestResult("Static Stability", PASSED,
                        "Design is stable", details, None)
        ELSE TestResult("Static Stability", FAILED,
                        "Design is unstable! Center of Mass is outside the base.",
                        details, details)

\* Lines 735-861.
test_static_stability(scene) ==
    LET parts == _extract_solids(scene)
        n     == Len(parts)
        vol   == [i \in 1..n |-> _get_solid_volume(parts[i].solid)]
        total_volume == Sum(vol, Massive(parts))
        weighted(axis) ==
            Sum([i \in 1..n |-> parts[i].solid.center[axis] * vol[i]], Massive(parts))
        support == GroundParts(parts)
        base_min_x == SetMin({parts[i].solid.bb[1] : i \in support})
        base_max_x == SetMax({parts[i].solid.bb[2] : i \in support})
        base_min_y == SetMin({parts[i].solid.bb[3] : i \in support})
        base_max_y == SetMax({parts[i].solid.bb[4] : i \in support})
        is_stable_x == /\ base_min_x * total_volume <= weighted(1)
                       /\ weighted(1) <= base_max_x * total_volume
        is_stable_y == /\ base_min_y * total_volume <= weighted(2)
                       /\ weighted(2) <= base_max_y * total_volume
        \* min_margin * total_volume
        min_margin == SetMin({weighted(1) - base_min_x * total_volume,
                              base_max_x * total_volume - weighted(1),
                              weighted(2) - base_min_y * total_volume,
                              base_max_y * total_volume - weighted(2)})
        details == [center_of_mass |-> <<weighted(1), weighted(2), weighted(3)>>,
                    total_volume   |-> total_volume,
                    base_bounds    |-> [x_range |-> <<base_min_x, base_max_x>>,
                                        y_range |-> <<base_min_y, base_max_y>>],
                    margin         |-> min_margin]
    IN  IF n = 0
        THEN TestResult("Static Stability", SKIPPED,
                        "No parts found to test", NoDetails, None)
        ELSE IF StabilityRaises(parts)
        THEN TestResult("Static Stability", ERROR,
                        "Error running stability test", NoDetails, None)
        ELSE IF total_volume <= 0
        THEN TestResult("Static Stability", SKIPPED,
                        "Could not calculate volume of parts", NoDetails, None)
        ELSE IF support = {}
        THEN TestResult("Static Stability", FAILED,
                        "No parts found touching the ground (floating object?)",
                        NoDetails, None)
        ELSE IF is_stable_x /\ is_stable_y
        THEN TestResult("Static Stability", PASSED,
                        "Design is stable", details, None)
        ELSE TestResult("Static Stability", FAILED,
                        "Design is unstable! Center of Mass is outside the base.",
                        details, details)

(***************************************************************************)
(* SpecCatalog: test_parts_in_library applied to every scene of up to      *)
(* MaxParts solids drawn from CatalogSolids, under every catalog, with and *)
(* without OCP.                                                            *)
(***************************************************************************)
Box(xlen, ylen, zlen) == <<0, xlen, 0, ylen, 0, zlen>>

\* Solids whose kernel answers differ in what the catalog check reads: the
\* oriented box (in any axis order), the axis-aligned box, and whether
\* either call raises.
CatalogSolids ==
    { Solid(<<14, 6, 6>>, Box(14, 6, 6), <<1>>, <<0, 0, 0>>),
      Solid(<<6, 11, 6>>, Box(6, 11, 6), <<1>>, <<0, 0, 0>>),
      Solid(<<10, 1, 12>>, Box(10, 1, 12), <<1>>, <<0, 0, 0>>),
      Solid(<<16, 15, 1>>, Box(16, 15, 1), <<1>>, <<0, 0, 0>>),
      Solid(<<3, 3, 3>>, Box(3, 3, 3), <<1>>, <<0, 0, 0>>),
      Solid(<<6, 6, 14>>, Box(10, 10, 12), <<1>>, <<0, 0, 0>>),
      Solid(None, Box(14, 6, 6), <<1>>, <<0, 0, 0>>),
      Solid(None, None, <<1>>, <<0, 0, 0>>) }

RECURSIVE SeqsUpTo(_, _)
SeqsUpTo(S, n) ==
    IF n = 0 THEN {<< >>}
    ELSE LET shorter == SeqsUpTo(S, n - 1)
         IN  shorter \cup {Append(q, x) : q \in shorter, x \in S}

NoOverlaps(n) == [p \in Pairs(n) |-> None]
Touching(n) == [p \in Pairs(n) |-> <<0>>]

CatalogScenes ==
    {Compound(q, NoOverlaps(Len(q)), Touching(Len(q))) :
        q \in SeqsUpTo(CatalogSolids, MaxParts)}
    \cup {UnknownResult}

InitCatalog ==
    /\ parts_library \in Catalogs
    /\ HAS_OCP \in BOOLEAN
    /\ sorted_dims = None
    /\ classification = NotClassified
    /\ result \in CatalogScenes
    /\ tests = << >>
    /\ invoked = << >>
    /\ suite = NoSuite
    /\ code = NoCode
    /\ extracted = << >>
    /\ first_run = NoSuite
    /\ is_safe = None
    /\ exec_globals = None
    /\ traversal = None
    /\ pc = "check"

CheckPartsInLibrary ==
    /\ pc = "check"
    /\ invoked' = Append(invoked, "test_parts_in_library")
    /\ IF TestPartsInLibraryRaises(result, parts_library)
       THEN /\ pc' = "raised"
            /\ tests' = tests
       ELSE /\ pc' = "checked"
            /\ tests' = Append(tests, test_parts_in_library(result, parts_library))
    /\ UNCHANGED <<parts_library, HAS_OCP, sorted_dims, classification, result, suite,
                   code, extracted, first_run,
                   is_safe, exec_globals, traversal>>

SpecCatalog == InitCatalog /\ [][CheckPartsInLibrary]_vars

(***************************************************************************)
(* Spec: run_test_suite.  The design code is given by what executing it    *)
(* does: it has a syntax error, raises an Exception, raises a              *)
(* BaseException that is no Exception (SystemExit, KeyboardInterrupt),     *)
(* finishes without binding `result`, binds it to None, or binds it to a   *)
(* scene.                                                                  *)
(***************************************************************************)
ExecOutcomes ==
    {"SyntaxError", "Exception", "SystemExit", "result unbound", "result is None",
     "result bound"}

\* Lines 368-406, for the outcomes that test_code_executes returns from;
\* SystemExit is caught by neither except clause (lines 395, 401).
test_code_executes(outcome) ==
    IF outcome = "SyntaxError"
    THEN TestResult("Code Execution", FAILED, "Syntax error", NoDetails, None)
    ELSE IF outcome = "Exception"
    THEN TestResult("Code Execution", ERROR, "Runtime error", NoDetails, None)
    ELSE IF outcome = "result unbound"
    THEN TestResult("Code Execution", FAILED,
                    "Code executed but 'result' variable was not defined",
                    NoDetails, None)
    ELSE IF outcome = "result is None"
    THEN TestResult("Code Execution", FAILED,
                    "Code executed but 'result' is None", NoDetails, None)
    ELSE TestResult("Code Execution", PASSED,
                    "Code executed successfully and produced a result",
                    NoDetails, None)

TestCodeExecutesRaises(outcome) == outcome = "SystemExit"

\* Mutant: the analyses run unless the execution result is an error.
AfterExecution_unless_error(exec_result) ==
    IF exec_result.status # ERROR THEN "test_parts_in_library" ELSE "skip"

\* The branch of line 879.
AfterExecution(exec_result) ==
    IF exec_result.status = PASSED THEN "test_parts_in_library" ELSE "skip"

\* Mutant: a failed analysis ends the run.
AfterAnalysis_short_circuit(analysis, test_result) ==
    IF test_result.status = FAILED THEN "count"
    ELSE IF analysis = "test_parts_in_library" THEN "test_no_intersections"
    ELSE IF analysis = "test_no_intersections" THEN "test_static_stability"
    ELSE IF analysis = "test_static_stability" THEN "test_connectivity"
    ELSE "count"

\* Mutant: an analysis that reports an error ends the run.
AfterAnalysis_stop_on_error(analysis, test_result) ==
    IF test_result.status = ERROR THEN "count"
    ELSE IF analysis = "test_parts_in_library" THEN "test_no_intersections"
    ELSE IF analysis = "test_no_intersections" THEN "test_static_stability"
    ELSE IF analysis = "test_static_stability" THEN "test_connectivity"
    ELSE "count"

\* Lines 881-894: each analysis is followed by the next one, whatever it
\* returned.
AfterAnalysis(analysis, test_result) ==
    IF analysis = "test_parts_in_library" THEN "test_no_intersections"
    ELSE IF analysis = "test_no_intersections" THEN "test_static_stability"
    ELSE IF analysis = "test_static_stability" THEN "test_connectivity"
    ELSE "count"

Skipped(name) ==
    TestResult(name, SKIPPED, "Skipped because code execution failed",
               NoDetails, None)

\* Lines 896-920: the results appended when the execution did not pass.
SkippedResults ==
    << Skipped("Parts in Library"),
       Skipped("No Part Intersections"),
       Skipped("Static Stability"),
       Skipped("Part Connectivity"),
       Skipped("Part Connectivity") >>

\* Mutant: errors are counted as failures.
CountStatus_error_as_failed(results, status) ==
    Cardinality({k \in 1..Len(results) :
                    \/ results[k].status = status
                    \/ status = FAILED /\ results[k].status = ERROR})

\* Mutant: a skipped result is counted as passed as well.
CountStatus_skipped_as_passed(results, status) ==
    Cardinality({k \in 1..Len(results) :
                    \/ results[k].status = status
                    \/ status = PASSED /\ results[k].status = SKIPPED})

\* sum(1 for t in tests if t.status == status), lines 923-926.
CountStatus(results, status) ==
    Cardinality({k \in 1..Len(results) : results[k].status = status})

\* Lines 928-934 and TestSuiteResult.to_dict (lines 52-60).
TestSuiteResult(results) ==
    LET passed  == CountStatus(results, PASSED)
        failed  == CountStatus(results, FAILED)
        skipped == CountStatus(results, SKIPPED)
        errors  == CountStatus(results, ERROR)
    IN  [returned |-> TRUE,
         passed   |-> passed,
         failed   |-> failed,
         skipped  |-> skipped,
         errors   |-> errors,
         tests    |-> results,
         success  |-> (failed = 0 /\ errors = 0)]

\* Solids of the suite's scenes (catalog DefaultLibrary in mind): a beam of
\* stock length standing on the ground; a heavy block of no catalog shape
\* hanging off to the side; a shape the kernel cannot measure at all; a
\* solid whose Center() raises.
StandingBeam == Solid(<<6, 6, 14>>, <<0, 6, 0, 6, 0, 14>>, <<1>>, <<3, 3, 7>>)
HangingBlock == Solid(<<3, 3, 3>>, <<20, 23, 0, 3, 10, 13>>, <<4>>, <<21, 1, 11>>)
NullShape == Solid(None, None, None, None)
NoCentre == Solid(<<2, 2, 2>>, <<2, 4, 2, 4, 0, 2>>, <<1>>, None)

SuiteSolids == {StandingBeam, HangingBlock, NullShape, NoCentre}

\* What the kernel answers for a pair: no intersection and touching; an
\* intersection above the threshold and apart; an intersection at the
\* threshold and a failing distance computation.
PairAnswers ==
    { [overlap |-> None, distance |-> <<1>>],
      [overlap |-> [volume |-> <<3>>], distance |-> <<2>>],
      [overlap |-> [volume |-> <<2>>], distance |-> None] }

SuiteScenes ==
    UNION { { Compound(q, [p \in Pairs(Len(q)) |-> a[p].overlap],
                          [p \in Pairs(Len(q)) |-> a[p].distance]) :
                a \in [Pairs(Len(q)) -> PairAnswers] } :
            q \in SeqsUpTo(SuiteSolids, MaxSuiteParts) }
    \cup {UnknownResult}

\* A design code is what executing it does and, when it binds `result`, the
\* scene it binds it to.
Codes ==
    {[outcome |-> o, scene |-> NoScene] : o \in ExecOutcomes \ {"result bound"}}
    \cup {[outcome |-> "result bound", scene |-> s] : s \in SuiteScenes}

Init ==
    /\ parts_library \in Catalogs
    /\ HAS_OCP \in BOOLEAN
    /\ sorted_dims = None
    /\ classification = NotClassified
    /\ result = NoScene
    /\ tests = << >>
    /\ invoked = << >>
    /\ suite = NoSuite
    /\ code \in Codes
    /\ extracted = << >>
    /\ first_run = NoSuite
    /\ is_safe = None
    /\ exec_globals = None
    /\ traversal = None
    /\ pc = "test_code_executes"

\* Lines 868-879.  The globals of lines 868-872 carry the interpreter's own
\* builtins module.
ExecuteCode ==
    /\ pc = "test_code_executes"
    /\ exec_globals' = [builtins |-> "__builtins__"]
    /\ IF TestCodeExecutesRaises(code.outcome)
       THEN /\ pc' = "raised"
            /\ UNCHANGED <<tests, result>>
       ELSE /\ tests' = Append(tests, test_code_executes(code.outcome))
            /\ pc' = AfterExecution(test_code_executes(code.outcome))
            /\ result' = code.scene
    /\ UNCHANGED <<parts_library, HAS_OCP, sorted_dims, classification, invoked, suite,
                   code, extracted, first_run, is_safe, traversal>>

\* Lines 880-882.
RunPartsInLibrary ==
    /\ pc = "test_parts_in_library"
    /\ invoked' = Append(invoked, "test_parts_in_library")
    /\ IF TestPartsInLibraryRaises(result, parts_library)
       THEN /\ pc' = "raised"
            /\ tests' = tests
       ELSE /\ tests' = Append(tests, test_parts_in_library(result, parts_library))
            /\ pc' = AfterAnalysis("test_parts_in_library",
                                   test_parts_in_library(result, parts_library))
    /\ UNCHANGED <<parts_library, HAS_OCP, sorted_dims, classification, result, suite,
                   code, extracted, first_run,
                   is_safe, exec_globals, traversal>>

\* Lines 884-886.
RunNoIntersections ==
    /\ pc = "test_no_intersections"
    /\ invoked' = Append(invoked, "test_no_intersections")
    /\ tests' = Append(tests, test_no_intersections(result))
    /\ pc' = AfterAnalysis("test_no_intersections", test_no_intersections(result))
    /\ UNCHANGED <<parts_library, HAS_OCP, sorted_dims, classification, result, suite,
                   code, extracted, first_run,
                   is_safe, exec_globals, traversal>>

\* Lines 888-890.
RunStaticStability ==
    /\ pc = "test_static_stability"
    /\ invoked' = Append(invoked, "test_static_stability")
    /\ tests' = Append(tests, test_static_stability(result))
    /\ pc' = AfterAnalysis("test_static_stability", test_static_stability(result))
    /\ UNCHANGED <<parts_library, HAS_OCP, sorted_dims, classification, result, suite,
                   code, extracted, first_run,
                   is_safe, exec_globals, traversal>>

\* Lines 892-894.
RunConnectivity ==
    /\ pc = "test_connectivity"
    /\ invoked' = Append(invoked, "test_connectivity")
    /\ tests' = Append(tests, test_connectivity(result))
    /\ pc' = AfterAnalysis("test_connectivity", test_connectivity(result))
    /\ UNCHANGED <<parts_library, HAS_OCP, sorted_dims, classification, result, suite,
                   code, extracted, first_run,
                   is_safe, exec_globals, traversal>>

\* Lines 895-920.
SkipAnalyses ==
    /\ pc = "skip"
    /\ tests' = tests \o SkippedResults
    /\ pc' = "count"
    /\ UNCHANGED <<parts_library, HAS_OCP, sorted_dims, classification, result,
                   invoked, suite,
                   code, extracted, first_run,
                   is_safe, exec_globals, traversal>>

\* Lines 922-934.
CountResults ==
    /\ pc = "count"
    /\ suite' = TestSuiteResult(tests)
    /\ pc' = "returned"
    /\ UNCHANGED <<parts_library, HAS_OCP, sorted_dims, classification, result,
                   tests, invoked,
                   code, extracted, first_run,
                   is_safe, exec_globals, traversal>>

Next ==
    \/ ExecuteCode
    \/ RunPartsInLibrary
    \/ RunNoIntersections
    \/ RunStaticStability
    \/ RunConnectivity
    \/ SkipAnalyses
    \/ CountResults

Spec == Init /\ [][Next]_vars

(***************************************************************************)
(* Properties of run_test_suite.                                           *)
(***************************************************************************)
AnalysisOrder ==
    <<"test_parts_in_library", "test_no_intersections",
      "test_static_stability", "test_connectivity">>

AnalysisNames ==
    <<"Parts in Library", "No Part Intersections",
      "Static Stability", "Part Connectivity">>

Returned == pc = "returned"

\* The design code raised (a syntax error or a runtime exception) and the
\* suite returned.
ExecutionRaised ==
    /\ Returned
    /\ suite.tests[1].message \in {"Syntax error", "Runtime error"}

\* C1: when executing the code raises, the result holds one 'Code
\* Execution' entry with status failed or error followed by exactly four
\* SKIPPED entries, in the order Catalog, Intersection, Stability,
\* Connectivity; skipped = 4 and success is false.
C1_OneFailureFourSkipped ==
    ExecutionRaised =>
        /\ suite.tests[1].name = "Code Execution"
        /\ suite.tests[1].status \in {FAILED, ERROR}
        /\ Len(suite.tests) = 5
        /\ \A k \in 1..4 :
              /\ suite.tests[k + 1].name = AnalysisNames[k]
              /\ suite.tests[k + 1].status = SKIPPED
        /\ suite.skipped = 4
        /\ ~ suite.success

IsPrefix(p, q) == Len(p) <= Len(q) /\ \A k \in 1..Len(p) : p[k] = q[k]

\* C2: once Code Execution is PASSED, the four analyses are called exactly
\* once each in the order Catalog, Intersection, Stability, Connectivity,
\* whatever the earlier ones returned, and the result list has one entry per
\* analysis in that order.
C2_AllAnalysesRunInOrder ==
    (tests # << >> /\ tests[1].status = PASSED) =>
        /\ pc # "raised"
        /\ IsPrefix(invoked, AnalysisOrder)
        /\ Len(tests) = 1 + Len(invoked)
        /\ \A k \in 1..Len(invoked) : tests[k + 1].name = AnalysisNames[k]
        /\ pc \in {"count", "returned"} => invoked = AnalysisOrder

\* Catalog and Intersection FAILED, Stability ERROR, and Connectivity still
\* ran.
C2_Witness ==
    /\ Returned
    /\ suite.tests[2].status = FAILED
    /\ suite.tests[3].status = FAILED
    /\ suite.tests[4].status = ERROR
    /\ suite.tests[5].name = "Part Connectivity"
    /\ invoked = AnalysisOrder

\* C3: run_test_suite never surfaces an exception: for every code it
\* returns a TestSuiteResult with a status for every check.
C3_NeverRaises ==
    /\ pc # "raised"
    /\ Returned =>
          \A k \in 1..4 :
              \E t \in 1..Len(suite.tests) :
                  /\ suite.tests[t].name = AnalysisNames[k]
                  /\ suite.tests[t].status \in TestStatus

\* C4: when the Code Execution result is not PASSED no analysis is called,
\* and every result after 'Code Execution' is SKIPPED with the reason
\* 'Skipped because code execution failed'.
C4_NoAnalysisAfterFailedExecution ==
    (tests # << >> /\ tests[1].status # PASSED) =>
        /\ invoked = << >>
        /\ \A k \in 2..Len(tests) :
              /\ tests[k].status = SKIPPED
              /\ tests[k].message = "Skipped because code execution failed"
        /\ Returned => Len(suite.tests) > 1

C4_Witness ==
    /\ Returned
    /\ suite.tests[1].message = "Code executed but 'result' is None"
    /\ suite.tests[1].status = FAILED
    /\ invoked = << >>
    /\ suite.tests[2].status = SKIPPED

RECURSIVE Occurrences(_, _)
Occurrences(results, status) ==
    IF results = << >> THEN 0
    ELSE (IF Head(results).status = status THEN 1 ELSE 0)
         + Occurrences(Tail(results), status)

\* C5: the counters of a returned TestSuiteResult are the numbers of its
\* tests with status passed, failed, skipped and error, and success is true
\* exactly when failed = 0 and errors = 0.
C5_CountsMatchTests ==
    Returned =>
        /\ suite.passed = Occurrences(suite.tests, PASSED)
        /\ suite.failed = Occurrences(suite.tests, FAILED)
        /\ suite.skipped = Occurrences(suite.tests, SKIPPED)
        /\ suite.errors = Occurrences(suite.tests, ERROR)
        /\ suite.success <=> (suite.failed = 0 /\ suite.errors = 0)
        /\ suite.tests = tests

C5_Witness ==
    /\ Returned
    /\ suite.passed >= 1
    /\ suite.failed >= 1
    /\ suite.errors >= 1
    /\ ~ suite.success

(***************************************************************************)
(* Properties of the part classifier.                                      *)
(***************************************************************************)
BeamNames(lib) == {lib.beams[i].name : i \in 1..Len(lib.beams)}

IsBeamVariant(c, lib) ==
    /\ DOMAIN c = {"type", "cross_section", "length", "valid_length", "beam_def"}
    /\ c.type \in BeamNames(lib)
    /\ c.valid_length \in BOOLEAN

IsSheetVariant(c) ==
    /\ DOMAIN c = {"type", "thickness", "width", "height", "valid_size"}
    /\ c.type = "plywood"
    /\ c.valid_size \in BOOLEAN

IsUnknownVariant(c) ==
    /\ DOMAIN c = {"type", "dimensions"}
    /\ c.type = "unknown"

\* Exactly one of the three variants.
IsOneVariant(c, lib) ==
    Cardinality({k \in {"beam", "sheet", "unknown"} :
                    \/ k = "beam" /\ IsBeamVariant(c, lib)
                    \/ k = "sheet" /\ IsSheetVariant(c)
                    \/ k = "unknown" /\ IsUnknownVariant(c)}) = 1

NonZeroIncrements(lib) ==
    \A i \in 1..Len(lib.beams) : lib.beams[i].length_increment # 0

Smaller(a, b) == IF a <= b THEN a ELSE b
Larger(a, b) == IF a <= b THEN b ELSE a

\* The catalog beams whose cross-section is within 1.0 mm of (d0, d1),
\* whichever of width and height is declared first.
MatchingBeams(dims, lib) ==
    {i \in 1..Len(lib.beams) :
        LET w == lib.beams[i].width
            h == lib.beams[i].height
        IN  /\ dims[1] - Smaller(w, h) \in (0 - 2)..2
            /\ dims[2] - Larger(w, h) \in (0 - 2)..2}

\* C7: _classify_part returns a beam classification exactly when some
\* catalog beam matches (d0, d1) within 1.0 mm on each axis, independent of
\* the declared order of width and height; of several matching entries the
\* first in catalog order is returned, with d2 as its length.
C7_FirstMatchingBeamWins ==
    pc = "classified" =>
        LET M == MatchingBeams(sorted_dims, parts_library)
        IN  /\ IsBeamVariant(classification, parts_library) <=> (M # {})
            /\ M # {} =>
                 \E i \in M :
                    /\ \A j \in M : i <= j
                    /\ classification.beam_def = parts_library.beams[i]
                    /\ classification.type = parts_library.beams[i].name
                    /\ classification.length = sorted_dims[3]

\* Two entries match, the first one declared with width > height.
C7_Witness ==
    /\ pc = "classified"
    /\ Cardinality(MatchingBeams(sorted_dims, parts_library)) = 2
    /\ classification.type = "beam_8x5"
    /\ classification.beam_def.width > classification.beam_def.height

\* min_length + k*length_increment for k >= 0, as far as a length can be
\* within tolerance of it.
GridLengths(b) ==
    {g \in 0..(MaxDim + 2) :
        \E k \in 0..(MaxDim + 2) : g = b.min_length + k * b.length_increment}

StockLengths(b) ==
    {g \in GridLengths(b) : b.min_length <= g /\ g <= b.max_length}

\* C8 as stated: a beam whose length is a stock length within
\* [min_length, max_length] has valid_length = true; a beam whose length is
\* more than 1.0 mm away from every such stock length has
\* valid_length = false.
C8_ValidLengthStock ==
    (pc = "classified" /\ IsBeamVariant(classification, parts_library)) =>
        LET b == classification.beam_def
            L == classification.length
        IN  /\ L \in StockLengths(b) => classification.valid_length
            /\ (\A g \in StockLengths(b) : abs(L - g) > 2)
                    => ~ classification.valid_length

\* C8 as amended: a stock length within [min_length, max_length] has
\* valid_length = true; a length more than 1.0 mm away from every grid length
\* min_length + k*length_increment (k >= 0), or below min_length - 1.0, or
\* above max_length + 1.0, has valid_length = false.
C8_ValidLengthGrid ==
    (pc = "classified" /\ IsBeamVariant(classification, parts_library)) =>
        LET b == classification.beam_def
            L == classification.length
        IN  /\ L \in StockLengths(b) => classification.valid_length
            /\ (\/ \A g \in GridLengths(b) : abs(L - g) > 2
                \/ L < b.min_length - 2
                \/ L > b.max_length + 2)
                    => ~ classification.valid_length

\* A beam longer than max_length + 1.0 whose length is on the grid.
C8_Witness ==
    /\ pc = "classified"
    /\ IsBeamVariant(classification, parts_library)
    /\ classification.length \in GridLengths(classification.beam_def)
    /\ classification.length > classification.beam_def.max_length + 2
    /\ ~ classification.valid_length

SheetFits(dims, lib) ==
    /\ dims[1] - lib.plywood.thickness \in (0 - 1)..1
    /\ dims[2] <= lib.plywood.max_width
    /\ dims[3] <= lib.plywood.max_height

\* C9 as stated: under every catalog, a triple with d0 within 0.5 mm of the
\* sheet thickness, d1 <= max_width and d2 <= max_height is classified as
\* plywood with valid_size = true.
C9_SheetValid ==
    (pc = "classified" /\ SheetFits(sorted_dims, parts_library)) =>
        /\ IsSheetVariant(classification)
        /\ classification.valid_size

\* C9 as amended: such a triple is classified as plywood with
\* valid_size = true provided no catalog beam matches (d0, d1).
C9_SheetValidWhenNoBeamMatches ==
    (/\ pc = "classified"
     /\ SheetFits(sorted_dims, parts_library)
     /\ MatchingBeams(sorted_dims, parts_library) = {}) =>
        /\ IsSheetVariant(classification)
        /\ classification.valid_size

\* A sheet wider than max_width would allow in the other direction.
C9_Witness ==
    /\ pc = "classified"
    /\ SheetFits(sorted_dims, parts_library)
    /\ MatchingBeams(sorted_dims, parts_library) = {}
    /\ Len(parts_library.beams) > 0
    /\ sorted_dims[3] > parts_library.plywood.max_width
    /\ classification.valid_size

(***************************************************************************)
(* Properties of the catalog constraint check.                             *)
(***************************************************************************)
\* The classification of part i of the scene, for a part whose dimensions
\* could be measured.
Measured(i) == _get_oriented_dims(result.solids[i]) # None

ClassOf(i) == _classify_part(_get_oriented_dims(result.solids[i]), parts_library)

\* Part i is Unknown, a beam with valid_length = false or a sheet with
\* valid_size = false.
Violating(i) ==
    /\ Measured(i)
    /\ \/ IsUnknownVariant(ClassOf(i))
       \/ IsBeamVariant(ClassOf(i), parts_library) /\ ~ ClassOf(i).valid_length
       \/ IsSheetVariant(ClassOf(i)) /\ ~ ClassOf(i).valid_size

NumParts == IF result.shape = "Compound" THEN Len(result.solids) ELSE 0

ViolatingParts == {i \in 1..NumParts : Violating(i)}

\* The violations name exactly the violating parts, once each, in part order.
OneMessagePerViolatingPart(violations) ==
    /\ Len(violations) = Cardinality(ViolatingParts)
    /\ \A i \in ViolatingParts :
          violations[Cardinality({j \in ViolatingParts : j <= i})][1] = PartName(i)

RECURSIVE SumOver(_, _)
SumOver(f, D) ==
    IF D = {} THEN 0
    ELSE LET x == CHOOSE x \in D : TRUE IN f[x] + SumOver(f, D \ {x})

CatalogVerdict(r) ==
    /\ r.name = "Parts in Library"
    /\ r.status = SKIPPED <=> NumParts = 0
    /\ NumParts > 0 => (r.status = FAILED <=> ViolatingParts # {})
    /\ r.status = FAILED => OneMessagePerViolatingPart(r.details.violations)
    /\ r.status \in {SKIPPED, FAILED, PASSED}

\* C10 as stated: SKIPPED iff the scene yields zero parts; otherwise FAILED
\* iff some part is Unknown, a beam of invalid length or a sheet of invalid
\* size, with exactly one message per such part in part order; otherwise
\* PASSED with per-type counts summing to the number of parts.
C10_CatalogCountsAllParts ==
    pc = "checked" =>
        /\ CatalogVerdict(tests[1])
        /\ tests[1].status = PASSED =>
              SumOver(tests[1].details.summary, DOMAIN tests[1].details.summary)
                  = NumParts

\* C10 as amended: the same verdict, and a PASSED result has per-type counts
\* summing to parts_analyzed, the number of parts whose bounding dimensions
\* could be measured; a part whose dimensions are None is in neither the
\* counts nor the violations.
C10_CatalogCountsMeasuredParts ==
    pc = "checked" =>
        /\ CatalogVerdict(tests[1])
        /\ tests[1].status = PASSED =>
              /\ SumOver(tests[1].details.summary, DOMAIN tests[1].details.summary)
                    = tests[1].details.parts_analyzed
              /\ tests[1].details.parts_analyzed
                    = Cardinality({i \in 1..NumParts : Measured(i)})

\* Three parts: one violating, one not, one whose dimensions are None.
C10_Witness ==
    /\ pc = "checked"
    /\ NumParts = 3
    /\ tests[1].status = FAILED
    /\ Len(tests[1].details.violations) = 1
    /\ tests[1].details.parts_analyzed = 2
    /\ Violating(2)

(***************************************************************************)
(* SpecIntersections: test_no_intersections applied to a scene of up to    *)
(* MaxParts parts, for every combination of kernel answers for its pairs.  *)
(***************************************************************************)
\* An intersection above the threshold, one exactly at it, and the ways the
\* computation can fail.
OverlapAnswers ==
    {KernelRaises, None, [volume |-> None], [volume |-> <<2>>], [volume |-> <<3>>]}

\* The state in which one analysis is about to be called on the scene
\* `result`.
InitAnalysis(ocp) ==
    /\ parts_library = DefaultLibrary
    /\ HAS_OCP \in ocp
    /\ sorted_dims = None
    /\ classification = NotClassified
    /\ tests = << >>
    /\ invoked = << >>
    /\ suite = NoSuite
    /\ code = NoCode
    /\ extracted = << >>
    /\ first_run = NoSuite
    /\ is_safe = None
    /\ exec_globals = None
    /\ traversal = None
    /\ pc = "check"

\* The part lists of length k: any solid when there is at most one part,
\* beams otherwise.
IntersectionSolids(k) ==
    IF k < 2 THEN [1..k -> SuiteSolids] ELSE {[i \in 1..k |-> StandingBeam]}

\* A scene of up to MaxParts parts with any kernel answer for each pair.
InitIntersections ==
    /\ InitAnalysis({TRUE})
    /\ \E k \in 0..MaxParts :
        \E q \in IntersectionSolids(k) :
        \E o \in [Pairs(k) -> OverlapAnswers] :
            result = Compound(q, o, Touching(k))

CheckNoIntersections ==
    /\ pc = "check"
    /\ invoked' = Append(invoked, "test_no_intersections")
    /\ tests' = Append(tests, test_no_intersections(result))
    /\ pc' = "checked"
    /\ UNCHANGED <<parts_library, HAS_OCP, sorted_dims, classification, result, suite,
                   code, extracted, first_run,
                   is_safe, exec_globals, traversal>>

SpecIntersections == InitIntersections /\ [][CheckNoIntersections]_vars

(***************************************************************************)
(* Properties of the intersection check.                                   *)
(***************************************************************************)
Checked == pc = "checked"

\* The pairs of the scene whose intersection has a volume above 1.0 mm^3.
Overlapping ==
    {p \in Pairs(NumParts) :
        /\ "volume" \in DOMAIN result.overlap[p]
        /\ result.overlap[p].volume # None
        /\ result.overlap[p].volume[1] > intersection_threshold}

Listed(test_result) ==
    [k \in 1..Len(test_result.details.intersections) |->
        <<test_result.details.intersections[k].part1,
          test_result.details.intersections[k].part2>>]

PairBefore(p, q) == p[1] < q[1] \/ (p[1] = q[1] /\ p[2] < q[2])

\* C11: fewer than two parts pass; for n >= 2 parts the n(n-1)/2 pairs are
\* each examined once, the result is FAILED iff some pair overlaps by more
\* than 1.0 mm^3, and the listed pairs are exactly those pairs, once each,
\* in ascending (i, j) order.
C11_IntersectingPairsListedInOrder ==
    Checked =>
        LET n == NumParts
            r == tests[1]
        IN  /\ r.name = "No Part Intersections"
            /\ n < 2 => r.status = PASSED
            /\ n >= 2 =>
                /\ r.details.pairs_checked = (n * (n - 1)) \div 2
                /\ r.status \in {PASSED, FAILED}
                /\ r.status = FAILED <=> Overlapping # {}
                /\ r.status = FAILED =>
                    /\ {Listed(r)[k] : k \in 1..Len(Listed(r))} = Overlapping
                    /\ \A k \in 1..(Len(Listed(r)) - 1) :
                            PairBefore(Listed(r)[k], Listed(r)[k + 1])

\* Three parts of which the first and the last pair overlap by more than the
\* threshold and the middle pair exactly by the threshold.
C11_Witness ==
    /\ Checked
    /\ NumParts = 3
    /\ tests[1].status = FAILED
    /\ Listed(tests[1]) = << <<1, 2>>, <<2, 3>> >>
    /\ result.overlap[<<1, 3>>] = [volume |-> <<2>>]

(***************************************************************************)
(* SpecConnectivity: test_connectivity applied to a scene of up to         *)
(* MaxParts parts, with and without OCP.                                   *)
(***************************************************************************)
\* Two boxes far from each other and a shape whose BoundingBox() raises.
NearBox == Solid(<<4, 4, 4>>, <<0, 4, 0, 4, 0, 4>>, <<1>>, <<2, 2, 2>>)
FarBox == Solid(<<4, 4, 4>>, <<20, 24, 0, 4, 0, 4>>, <<1>>, <<22, 2, 2>>)

ConnectivitySolids == {NearBox, FarBox, NullShape}

\* The minimum distance of a pair as the kernel computes it: exactly the
\* tolerance, above it, or the computation fails.
DistanceAnswers == {None, <<1>>, <<2>>}

\* Two solids whose boxes are further apart than the tolerance are further
\* apart than the tolerance.
DistancesFit(q, dist) ==
    \A p \in Pairs(Len(q)) :
        (/\ q[p[1]].bb # None
         /\ q[p[2]].bb # None
         /\ ~ BoxesOverlap(q[p[1]].bb, q[p[2]].bb))
            => dist[p] \in {None, <<2>>}

\* A scene of up to MaxParts parts with any fitting kernel answer for each
\* pair.
InitConnectivity ==
    /\ InitAnalysis(BOOLEAN)
    /\ \E k \in 0..MaxParts :
        \E q \in [1..k -> ConnectivitySolids] :
        \E dist \in [Pairs(k) -> DistanceAnswers] :
            /\ DistancesFit(q, dist)
            /\ result = Compound(q, NoOverlaps(k), dist)

CheckConnectivity ==
    /\ pc = "check"
    /\ invoked' = Append(invoked, "test_connectivity")
    /\ tests' = Append(tests, test_connectivity(result))
    /\ pc' = "checked"
    /\ UNCHANGED <<parts_library, HAS_OCP, sorted_dims, classification, result, suite,
                   code, extracted, first_run,
                   is_safe, exec_globals, traversal>>

SpecConnectivity == InitConnectivity /\ [][CheckConnectivity]_vars

(***************************************************************************)
(* Properties of the connectivity check.                                   *)
(***************************************************************************)
\* The distance of the pair is known and at most 0.1 mm.
DistanceEdge(i, j) ==
    /\ result.distance[<<i, j>>] # None
    /\ result.distance[<<i, j>>][1] <= connect_tolerance

\* Without OCP: both boxes are readable and overlap when grown by 0.1 mm.
FallbackEdge(i, j) ==
    /\ result.solids[i].bb # None
    /\ result.solids[j].bb # None
    /\ BoxesOverlap(result.solids[i].bb, result.solids[j].bb)

CodeEdge(i, j) == IF HAS_OCP THEN DistanceEdge(i, j) ELSE FallbackEdge(i, j)

EdgeSet(Edge(_, _)) == {p \in Pairs(NumParts) : Edge(p[1], p[2])}

\* The parts joined to a part of S by a path of edges of E.
RECURSIVE Grow(_, _)
Grow(S, E) ==
    LET more == {v \in 1..NumParts :
                    \E u \in S : <<u, v>> \in E \/ <<v, u>> \in E}
    IN  IF more \subseteq S THEN S ELSE Grow(S \cup more, E)

DetachedNames(Edge(_, _)) ==
    LET detached == (1..NumParts) \ Grow({1}, EdgeSet(Edge))
        order    == AscendingFrom(detached, 1, NumParts)
    IN  [k \in 1..Len(order) |-> PartName(order[k])]

ConnectivityVerdict(Edge(_, _)) ==
    LET r == tests[1]
    IN  /\ r.name = "Part Connectivity"
        /\ NumParts = 0 => r.status = SKIPPED
        /\ NumParts = 1 => r.status = PASSED
        /\ NumParts >= 2 =>
            /\ r.status \in {PASSED, FAILED}
            /\ r.status = FAILED <=> DetachedNames(Edge) # << >>
            /\ r.status = FAILED => r.details.disconnected_parts = DetachedNames(Edge)
            /\ r.status = PASSED => r.details = [component_count |-> 1]

Slab == Solid(<<6, 6, 2>>, <<0, 6, 0, 6, 0, 2>>, <<1>>, <<3, 3, 1>>)
Ledge == Solid(<<6, 6, 2>>, <<6, 12, 0, 6, 2, 4>>, <<1>>, <<9, 3, 3>>)
EdgeBlock == Solid(<<2, 2, 2>>, <<8, 10, 2, 4, 10, 12>>, <<1>>, <<9, 3, 11>>)
LowFace == Solid(<<4, 4, 0>>, <<30, 34, 0, 4, -4, -4>>, <<0>>, <<32, 2, -4>>)
Inverted == Solid(<<2, 2, 2>>, <<2, 4, 2, 4, 0, 2>>, <<-1>>, <<3, 3, 1>>)

StabilitySolids ==
    {Slab, Ledge, EdgeBlock, HangingBlock, LowFace, Inverted, NoCentre, NullShape}

\* The scenes of up to n parts.
StabilityScenes(n) ==
    {Compound(q, NoOverlaps(Len(q)), Touching(Len(q))) :
        q \in SeqsUpTo(StabilitySolids, n)}
    \cup {UnknownResult}

InitStability ==
    /\ InitAnalysis({TRUE})
    /\ result \in StabilityScenes(MaxParts)

CheckStaticStability ==
    /\ pc = "check"
    /\ invoked' = Append(invoked, "test_static_stability")
    /\ tests' = Append(tests, test_static_stability(result))
    /\ pc' = "checked"
    /\ UNCHANGED <<parts_library, HAS_OCP, sorted_dims, classification, result, suite,
                   code, extracted, first_run,
                   is_safe, exec_globals, traversal>>

SpecStability == InitStability /\ [][CheckStaticStability]_vars

(***************************************************************************)
(* Properties of the stability check.                                      *)
(***************************************************************************)
\* The parts whose volume can be read and is positive.
PositiveParts(solids) ==
    {i \in 1..Len(solids) : solids[i].volume # None /\ solids[i].volume[1] > 0}

TotalVolume(solids) ==
    Sum([i \in 1..Len(solids) |-> solids[i].volume[1]], PositiveParts(solids))

\* The volume-weighted sum of the centres along an axis: the centre of mass
\* times the total volume.
Moment(solids, axis) ==
    Sum([i \in 1..Len(solids) |-> solids[i].center[axis] * solids[i].volume[1]],
        PositiveParts(solids))

SceneSolids == IF result.shape = "Compound" THEN result.solids ELSE << >>

\* Every centroid and bounding box the check asks for can be read.
GeometryReadable(solids) ==
    /\ \A i \in PositiveParts(solids) : solids[i].center # None
    /\ \A i \in 1..Len(solids) : solids[i].bb # None

OnGround(solids) ==
    {i \in 1..Len(solids) :
        \A j \in 1..Len(solids) : solids[i].bb[5] <= solids[j].bb[5] + ground_tolerance}

\* The centre of mass lies in the bounding rectangle of the footprints of
\* the parts on the ground, bounds included.
CenterOverBase(solids) ==
    LET V == TotalVolume(solids)
    IN  /\ \E i \in OnGround(solids) : solids[i].bb[1] * V <= Moment(solids, 1)
        /\ \E i \in OnGround(solids) : solids[i].bb[2] * V >= Moment(solids, 1)
        /\ \E i \in OnGround(solids) : solids[i].bb[3] * V <= Moment(solids, 2)
        /\ \E i \in OnGround(solids) : solids[i].bb[4] * V >= Moment(solids, 2)

\* C13: for a scene of positive total volume whose centroids and bounding
\* boxes can be read, the check returns PASSED iff the volume-weighted
\* centre of mass of the positive-volume parts lies, in X and in Y, within
\* the bounding rectangle (bounds included) of the footprints of the parts
\* whose zmin is at most the lowest zmin + 1.0, and FAILED otherwise.
C13_StableIffCenterOverBase ==
    (/\ Checked
     /\ TotalVolume(SceneSolids) > 0
     /\ GeometryReadable(SceneSolids)) =>
        /\ tests[1].name = "Static Stability"
        /\ tests[1].status \in {PASSED, FAILED}
        /\ tests[1].status = PASSED <=> CenterOverBase(SceneSolids)

\* The slab and the block above it: the centre of mass is exactly on the
\* edge of the base, and the result is PASSED.
C13_Witness ==
    /\ Checked
    /\ SceneSolids = <<Slab, EdgeBlock>>
    /\ Moment(SceneSolids, 1) = Slab.bb[2] * TotalVolume(SceneSolids)
    /\ tests[1].status = PASSED

\* The scene without the parts of non-positive or unreadable volume.
WithoutMassless(solids) ==
    SelectSeq(solids, LAMBDA s : s.volume # None /\ s.volume[1] > 0)

StatusWithoutMassless ==
    LET rest == WithoutMassless(SceneSolids)
    IN  test_static_stability(
            Compound(rest, NoOverlaps(Len(rest)), Touching(Len(rest)))).status

\* C14: a part whose volume is non-positive or unreadable contributes
\* nothing to the centre of mass and never by itself makes the result FAILED
\* or ERROR (a FAILED or ERROR result is also the result for the scene
\* without these parts); the result is SKIPPED 'Could not calculate volume
\* of parts' exactly when there is a part and the total volume is <= 0.
C14_MasslessPartsNeverFail ==
    Checked =>
        /\ tests[1].status \in {FAILED, ERROR} => StatusWithoutMassless = tests[1].status
        /\ tests[1].message = "Could not calculate volume of parts"
            <=> (SceneSolids # << >> /\ TotalVolume(SceneSolids) <= 0)
        /\ "center_of_mass" \in DOMAIN tests[1].details =>
                tests[1].details.center_of_mass
                    = <<Moment(SceneSolids, 1), Moment(SceneSolids, 2), Moment(SceneSolids, 3)>>

\* A geometry call of the stability check raises on the scene: Center() of
\* a part of positive volume, or BoundingBox() of a part once the total
\* volume is positive.
GeometryCallRaises ==
    /\ SceneSolids # << >>
    /\ \/ \E i \in PositiveParts(SceneSolids) : SceneSolids[i].center = None
       \/ /\ TotalVolume(SceneSolids) > 0
          /\ \E i \in 1..Len(SceneSolids) : SceneSolids[i].bb = None

StabilityCalled == \E k \in 1..Len(invoked) : invoked[k] = "test_static_stability"

\* C15: an exception raised by a geometry call inside the stability check
\* becomes a 'Static Stability' result with status ERROR; it does not leave
\* the check, and run_test_suite calls the connectivity check afterwards.
C15_StabilityErrorIsReported ==
    (StabilityCalled /\ GeometryCallRaises) =>
        /\ pc # "raised"
        /\ Len(tests) >= 4
        /\ tests[4].name = "Static Stability"
        /\ tests[4].status = ERROR
        /\ pc \in {"test_connectivity", "count", "returned"}
        /\ pc \in {"count", "returned"} =>
            /\ Len(invoked) = 4
            /\ invoked[4] = "test_connectivity"
            /\ Len(tests) = 5
            /\ tests[5].name = "Part Connectivity"
            /\ tests[5].status \in {PASSED, FAILED}

C15_Witness ==
    /\ Returned
    /\ GeometryCallRaises
    /\ suite.tests[4].status = ERROR
    /\ suite.tests[5].name = "Part Connectivity"
    /\ suite.errors = 1

(***************************************************************************)
(* SpecExtract: one call of _extract_solids on a scene of every shape: an  *)
(* assembly of named nodes, each with a parent, a location of its own and  *)
(* an object; a workplane of up to MaxVals values; a compound; a single    *)
(* solid; an object of no known type.                                      *)
(***************************************************************************)
\* The keys of the `objects` dict, in its order.
NodeNames == <<"leg", "leg_1", "top">>

\* The identity and a translation.
Locations == {<<0>>, <<2>>}

\* What a node owns: nothing; a Workplane whose value has one or two
\* solids, or cannot be read; a shape that has no solid of its own or one,
\* or whose Solids() raises.
NodeObjects ==
    { [obj |-> "None", solids |-> << >>, raises |-> FALSE],
      [obj |-> "Workplane", solids |-> <<Slab>>, raises |-> FALSE],
      [obj |-> "Workplane", solids |-> <<Slab, Ledge>>, raises |-> FALSE],
      [obj |-> "Workplane", solids |-> <<Slab>>, raises |-> TRUE],
      [obj |-> "Shape", solids |-> << >>, raises |-> FALSE],
      [obj |-> "Shape", solids |-> <<Slab>>, raises |-> FALSE],
      [obj |-> "Shape", solids |-> <<Slab>>, raises |-> TRUE] }

Node(name, parent, loc, object) ==
    [name |-> name, parent |-> parent, loc |-> loc, val |-> Slab,
     obj |-> object.obj, solids |-> object.solids, raises |-> object.raises]

\* The lists of the first n nodes: the first node is the root and every
\* other node has an earlier node as its parent.
RECURSIVE NodeLists(_)
NodeLists(n) ==
    IF n = 0 THEN {<< >>}
    ELSE UNION { {Append(q, Node(NodeNames[n], parent, loc, object)) :
                    parent \in (IF n = 1 THEN {0} ELSE 1..(n - 1)),
                    loc \in Locations,
                    object \in NodeObjects} :
                 q \in NodeLists(n - 1) }

\* The location of node k in world space: its own composed with those of
\* its ancestors.
RECURSIVE WorldLocation(_, _)
WorldLocation(nodes, k) ==
    IF nodes[k].parent = 0 THEN nodes[k].loc[1]
    ELSE nodes[k].loc[1] + WorldLocation(nodes, nodes[k].parent)

\* The solids of node k, each placed in world space.
WorldSolids(nodes, k) ==
    LET own == IF nodes[k].obj = "None" THEN << >>
               ELSE IF nodes[k].solids # << >> THEN nodes[k].solids
               ELSE <<nodes[k].val>>
    IN  [i \in 1..Len(own) |->
            IF WorldLocation(nodes, k) = 0 THEN own[i]
            ELSE Moved(own[i], WorldLocation(nodes, k))]

RECURSIVE AllWorldSolids(_, _)
AllWorldSolids(nodes, k) ==
    IF k > Len(nodes) THEN << >>
    ELSE WorldSolids(nodes, k) \o AllWorldSolids(nodes, k + 1)

\* toCompound() raises when the object of a node cannot be read.
Assembly(nodes) ==
    [shape |-> "Assembly", nodes |-> nodes,
     compound |-> IF \E k \in 1..Len(nodes) : nodes[k].raises THEN None
                  ELSE AllWorldSolids(nodes, 1)]

WorkplaneValues ==
    {[val |-> Slab, solids |-> s, raises |-> FALSE] :
        s \in {<< >>, <<Slab>>, <<Slab, Ledge>>}}
    \cup {[val |-> Slab, solids |-> <<Slab>>, raises |-> TRUE]}

\* The scenes whose workplanes have up to n values.
ExtractScenes(n) ==
    {Assembly(q) : q \in UNION {NodeLists(k) : k \in 1..Len(NodeNames)}}
    \cup {[shape |-> "Workplane", vals |-> q] : q \in SeqsUpTo(WorkplaneValues, n)}
    \cup {Compound(q, NoOverlaps(Len(q)), Touching(Len(q))) :
            q \in {<< >>, <<Slab>>, <<Slab, Ledge>>}}
    \cup {[shape |-> "Solid", solid |-> Slab], UnknownResult}

InitExtract ==
    /\ parts_library = DefaultLibrary
    /\ HAS_OCP = TRUE
    /\ sorted_dims = None
    /\ classification = NotClassified
    /\ result \in ExtractScenes(MaxVals)
    /\ tests = << >>
    /\ invoked = << >>
    /\ suite = NoSuite
    /\ code = NoCode
    /\ extracted = << >>
    /\ first_run = NoSuite
    /\ is_safe = None
    /\ exec_globals = None
    /\ traversal = None
    /\ pc = "extract"

ExtractSolids ==
    /\ pc = "extract"
    /\ extracted' = _extract_solids(result)
    /\ pc' = "extracted"
    /\ UNCHANGED <<parts_library, HAS_OCP, sorted_dims, classification, result, tests,
                   invoked, suite, code, first_run,
                   is_safe, exec_globals, traversal>>

SpecExtract == InitExtract /\ [][ExtractSolids]_vars

(***************************************************************************)
(* Properties of the scene extraction.                                     *)
(***************************************************************************)
Extracted == pc = "extracted"

\* C16: after a call of _extract_solids every returned part has a
\* non-empty name and no two returned parts have the same name.
C16_NamesNonEmptyAndUnique ==
    Extracted =>
        /\ \A k \in 1..Len(extracted) : extracted[k].name # ""
        /\ \A k, l \in 1..Len(extracted) :
                k # l => extracted[k].name # extracted[l].name

IsAssembly == result.shape = "Assembly"

NoNodeRaises == \A k \in 1..Len(result.nodes) : ~ result.nodes[k].raises

\* C17: for a hierarchical scene the solids returned are the solids of the
\* nodes, in node order, each moved by the composition of the locations of
\* the node's ancestors with the node's own location.
C17_SolidsPlacedInWorldSpace ==
    (Extracted /\ IsAssembly /\ NoNodeRaises) =>
        [k \in 1..Len(extracted) |-> extracted[k].solid]
            = AllWorldSolids(result.nodes, 1)

\* The parts the scene's element k yields when it is processed alone.
PartsOfNode(k) ==
    IF result.nodes[k].obj = "None" \/ result.nodes[k].raises THEN << >>
    ELSE NodeParts(result.nodes[k])

Returns(part) == \E k \in 1..Len(extracted) : extracted[k] = part

\* C18: _extract_solids never raises, and when a node cannot be processed
\* every part of every other node is still returned.
C18_OtherNodesStillReturned ==
    /\ pc # "raised"
    /\ (Extracted /\ IsAssembly) =>
            \A k \in 1..Len(result.nodes) :
                \A i \in 1..Len(PartsOfNode(k)) : Returns(PartsOfNode(k)[i])

(***************************************************************************)
(* SpecPairs: one of the two pairwise checks applied to a scene of up to   *)
(* MaxParts parts in which the kernel fails on some pairs.                 *)
(***************************************************************************)
\* What the kernel answers for a pair: the boolean operation raises and so
\* does the distance computation; the volume of the intersection cannot be
\* read and the distance computation fails; the solids overlap and touch;
\* the solids are apart.
FailingPairAnswers ==
    { [overlap |-> KernelRaises, distance |-> None],
      [overlap |-> [volume |-> None], distance |-> None],
      [overlap |-> [volume |-> <<3>>], distance |-> <<1>>],
      [overlap |-> None, distance |-> <<2>>] }

InitPairs ==
    /\ InitAnalysis(BOOLEAN)
    /\ \E k \in 0..MaxParts :
        \E q \in [1..k -> {NearBox, NullShape}] :
        \E a \in [Pairs(k) -> FailingPairAnswers] :
            result = Compound(q, [p \in Pairs(k) |-> a[p].overlap],
                                 [p \in Pairs(k) |-> a[p].distance])

NextPairs ==
    \/ CheckNoIntersections
    \/ CheckConnectivity

SpecPairs == InitPairs /\ [][NextPairs]_vars

(***************************************************************************)
(* Properties of the pairwise checks under kernel failures.                *)
(***************************************************************************)
\* The intersection of the pair, or its volume, cannot be computed.
IntersectionFails(p) ==
    \/ result.overlap[p] = KernelRaises
    \/ result.overlap[p] = [volume |-> None]

\* The distance of the pair (without OCP: a bounding box) cannot be computed.
DistanceFails(p) ==
    IF HAS_OCP THEN result.distance[p] = None
    ELSE result.solids[p[1]].bb = None \/ result.solids[p[2]].bb = None

ListedPairs(test_result) ==
    IF "intersections" \in DOMAIN test_result.details
    THEN {Listed(test_result)[k] : k \in 1..Len(Listed(test_result))}
    ELSE {}

\* The edges of the pairs whose computation succeeds.
ComputedEdges ==
    {p \in Pairs(NumParts) : ~ DistanceFails(p) /\ CodeEdge(p[1], p[2])}

ReportedDetached(test_result) ==
    IF "disconnected_parts" \in DOMAIN test_result.details
    THEN {test_result.details.disconnected_parts[k] :
            k \in 1..Len(test_result.details.disconnected_parts)}
    ELSE {}

\* C19: a failure of the geometry computation for one pair never aborts a
\* check.  In test_no_intersections every pair is still checked, a failing
\* pair is never listed and every other pair overlapping by more than the
\* threshold is; in test_connectivity a failing pair is no edge and the
\* detached parts are those not joined to the first part by the edges of
\* the other pairs.
C19_FailingPairNeverAborts ==
    (Checked /\ NumParts >= 2) =>
        /\ tests[1].status \in {PASSED, FAILED}
        /\ invoked[1] = "test_no_intersections" =>
            /\ tests[1].details.pairs_checked = Cardinality(Pairs(NumParts))
            /\ ListedPairs(tests[1])
                = {p \in Pairs(NumParts) : ~ IntersectionFails(p) /\ p \in Overlapping}
        /\ invoked[1] = "test_connectivity" =>
            ReportedDetached(tests[1])
                = {PartName(i) : i \in (1..NumParts) \ Grow({1}, ComputedEdges)}

\* Three parts: the computation fails for the first pair, the last pair is
\* still found to intersect.
C19_Witness ==
    /\ Checked
    /\ NumParts = 3
    /\ invoked[1] = "test_no_intersections"
    /\ IntersectionFails(<<1, 2>>)
    /\ ListedPairs(tests[1]) = {<<2, 3>>}

\* Three parts: the distance of the first and the last part cannot be
\* computed, both are joined to the second and nothing is detached.
C19_WitnessConnectivity ==
    /\ Checked
    /\ NumParts = 3
    /\ invoked[1] = "test_connectivity"
    /\ DistanceFails(<<1, 3>>)
    /\ ComputedEdges = {<<1, 2>>, <<2, 3>>}
    /\ tests[1].status = PASSED

(***************************************************************************)
(* SpecTwice: run_test_suite called a second time on the same code, in the *)
(* same process (main.py, run_tests): the catalog, the HAS_OCP flag and the *)
(* kernel's answers for the scene are those of the first run.              *)
(***************************************************************************)
\* The first call has returned; the second starts with an empty test list.
Rerun ==
    /\ pc = "returned"
    /\ first_run = NoSuite
    /\ first_run' = suite
    /\ suite' = NoSuite
    /\ tests' = << >>
    /\ invoked' = << >>
    /\ result' = NoScene
    /\ pc' = "test_code_executes"
    /\ exec_globals' = None
    /\ UNCHANGED <<parts_library, HAS_OCP, sorted_dims, classification, code, extracted,
                   is_safe, traversal>>

NextTwice ==
    \/ Next
    \/ Rerun

SpecTwice == Init /\ [][NextTwice]_vars

(***************************************************************************)
(* Properties of repeated runs.                                            *)
(***************************************************************************)
Statuses(s) == [k \in 1..Len(s.tests) |-> s.tests[k].status]

Messages(s) ==
    [k \in 1..Len(s.tests) |-> <<s.tests[k].message, s.tests[k].long_message>>]

ThicknessFits(dims, lib) == dims[1] - lib.plywood.thickness \in (0 - 1)..1

\* C21: a sheet match is considered only when no catalog beam matched; then
\* the classification is 'plywood' exactly when d0 is within 0.5 mm of the
\* sheet thickness, with valid_size = (d1 <= max_width and d2 <= max_height)
\* compared without tolerance; when neither a beam nor the sheet matches the
\* classification is 'unknown' and carries the sorted dimensions unchanged.
C21_SheetThenUnknown ==
    pc = "classified" =>
        LET lib == parts_library
            d == sorted_dims
        IN  /\ MatchingBeams(d, lib) # {} =>
                  classification.type \notin {"plywood", "unknown"}
            /\ (MatchingBeams(d, lib) = {} /\ ThicknessFits(d, lib)) =>
                  classification =
                      [type       |-> "plywood",
                       thickness  |-> d[1],
                       width      |-> d[2],
                       height     |-> d[3],
                       valid_size |-> (d[2] <= lib.plywood.max_width
                                       /\ d[3] <= lib.plywood.max_height)]
            /\ (MatchingBeams(d, lib) = {} /\ ~ThicknessFits(d, lib)) =>
                  classification = [type |-> "unknown", dimensions |-> d]

\* A sheet 0.5 mm higher than max_height: plywood, valid_size false.
C21_Witness ==
    /\ pc = "classified"
    /\ Len(parts_library.beams) > 0
    /\ MatchingBeams(sorted_dims, parts_library) = {}
    /\ ThicknessFits(sorted_dims, parts_library)
    /\ sorted_dims[3] = parts_library.plywood.max_height + 1
    /\ classification.type = "plywood"
    /\ ~classification.valid_size

\* A triple 1.0 mm off the sheet thickness with no matching beam: unknown.
C21_WitnessUnknown ==
    /\ pc = "classified"
    /\ MatchingBeams(sorted_dims, parts_library) = {}
    /\ abs(sorted_dims[1] - parts_library.plywood.thickness) = 2
    /\ classification = [type |-> "unknown", dimensions |-> sorted_dims]

(***************************************************************************)
(* Properties of test_code_executes.                                       *)
(***************************************************************************)
\* The status the code's outcome is to be reported with.
ExecutionStatus(outcome) ==
    IF outcome = "SyntaxError" THEN FAILED
    ELSE IF outcome \in {"result unbound", "result is None"} THEN FAILED
    ELSE IF outcome = "result bound" THEN PASSED
    ELSE ERROR

\* C22: test_code_executes never raises and always returns a result named
\* 'Code Execution': FAILED for a syntax error, ERROR for any other exception
\* raised by the code, FAILED when `result` is unbound or None, PASSED only
\* when `result` is bound to a value that is not None.
C22_ExecutionAlwaysReported ==
    pc # "test_code_executes" =>
        /\ pc # "raised"
        /\ tests # << >>
        /\ tests[1].name = "Code Execution"
        /\ tests[1].status = ExecutionStatus(code.outcome)

\* The names a node's parts are to have: the node's own name for a single
\* component, '<node>_1' ... '<node>_k' for k > 1 solids.
ComponentNames(node) ==
    IF node.obj = "None" \/ node.raises THEN << >>
    ELSE IF Len(node.solids) > 1
    THEN [i \in 1..Len(node.solids) |-> node.name \o "_" \o ToString(i)]
    ELSE <<node.name>>

RECURSIVE NamesFrom(_, _)
NamesFrom(nodes, k) ==
    IF k > Len(nodes) THEN << >>
    ELSE ComponentNames(nodes[k]) \o NamesFrom(nodes, k + 1)

PartNames == [k \in 1..Len(extracted) |-> extracted[k].name]

\* C23: a node yielding exactly one solid yields one part named with the
\* node's own name, a node yielding k > 1 solids yields k parts named
\* '<node>_1' ... '<node>_k' in component order; the names of the returned
\* parts are those of the nodes in node order (of the nodes before the one at
\* which the traversal ended, when it ended early).
C23_NodePartsNamedByComponent ==
    (Extracted /\ IsAssembly) =>
        /\ IsPrefix(PartNames, NamesFrom(result.nodes, 1))
        /\ (\A k \in 1..Len(result.nodes) :
                result.nodes[k].obj = "Shape" => ~ result.nodes[k].raises)
              => PartNames = NamesFrom(result.nodes, 1)

\* A node with one solid next to a node with two.
C23_Witness ==
    /\ Extracted
    /\ IsAssembly
    /\ Len(result.nodes) = 3
    /\ Len(result.nodes[1].solids) = 1
    /\ Len(result.nodes[3].solids) = 2
    /\ PartNames = <<"leg", "top_1", "top_2">>

(***************************************************************************)
(* SpecSandbox: the two endpoints of main.py that execute design code.  A  *)
(* request carries a code; /api/execute is handled by execute_code,        *)
(* /api/test by run_tests, which calls run_test_suite.                     *)
(***************************************************************************)
\* A code is, in addition, what _validate_code_safety answers about it
\* (main.py:79-119): a code that does not parse is never accepted.
SandboxCodes ==
    {[outcome |-> o, scene |-> NoScene, validates |-> v] :
        o \in ExecOutcomes \ {"SyntaxError", "result bound"}, v \in BOOLEAN}
    \cup {[outcome |-> "SyntaxError", scene |-> NoScene, validates |-> FALSE]}
    \cup {[outcome |-> "result bound", scene |-> s, validates |-> v] :
            s \in {UnknownResult,
                   Compound(<<StandingBeam>>, NoOverlaps(1), Touching(1))},
            v \in BOOLEAN}

InitSandbox ==
    /\ parts_library \in Catalogs
    /\ HAS_OCP \in BOOLEAN
    /\ sorted_dims = None
    /\ classification = NotClassified
    /\ result = NoScene
    /\ tests = << >>
    /\ invoked = << >>
    /\ suite = NoSuite
    /\ code \in SandboxCodes
    /\ extracted = << >>
    /\ first_run = NoSuite
    /\ is_safe = None
    /\ exec_globals = None
    /\ traversal = None
    /\ pc = "request"

\* main.py:671-769.  The code is validated first and refused when it does
\* not pass; otherwise it is executed with the builtins of
\* _create_safe_builtins.  An exception that is no Exception leaves the
\* handler (lines 757-769 catch SyntaxError and Exception).
execute_code ==
    /\ pc = "request"
    /\ is_safe' = <<code.validates>>
    /\ IF ~ code.validates
       THEN /\ pc' = "refused"
            /\ UNCHANGED exec_globals
       ELSE /\ exec_globals' = [builtins |-> "safe_builtins"]
            /\ pc' = IF code.outcome = "SystemExit" THEN "raised" ELSE "responded"
    /\ UNCHANGED <<parts_library, HAS_OCP, sorted_dims, classification, result, tests,
                   invoked, suite, code, extracted, first_run, traversal>>

\* main.py:803-811: the code is handed to run_test_suite as received.
run_tests ==
    /\ pc = "request"
    /\ pc' = "test_code_executes"
    /\ UNCHANGED <<parts_library, HAS_OCP, sorted_dims, classification, result, tests,
                   invoked, suite, code, extracted, first_run, is_safe, exec_globals, traversal>>

NextSandbox ==
    \/ execute_code
    \/ run_tests
    \/ Next

SpecSandbox == InitSandbox /\ [][NextSandbox]_vars

(***************************************************************************)
(* Properties of the execution paths.                                      *)
(***************************************************************************)
\* The design code has been handed to exec and compiled: its statements ran.
CodeExecuted == exec_globals # None /\ code.outcome # "SyntaxError"

\* C24: on every path by which design code is executed (/api/execute and
\* run_test_suite behind /api/test) the code has passed
\* _validate_code_safety and runs with the restricted builtins, never with
\* the interpreter's own.
C24_CodeRunsOnlyInSandbox ==
    CodeExecuted =>
        /\ is_safe = <<TRUE>>
        /\ exec_globals.builtins = "safe_builtins"

(***************************************************************************)
(* Properties of the counters of a TestSuiteResult.                        *)
(***************************************************************************)
\* C25: in every TestSuiteResult returned, passed + failed + skipped +
\* errors equals the number of tests, the first entry is 'Code Execution',
\* and every result has one of the four statuses, so that it is counted in
\* exactly one counter.
C25_CountersPartitionTests ==
    Returned =>
        /\ suite.passed + suite.failed + suite.skipped + suite.errors
              = Len(suite.tests)
        /\ Len(suite.tests) >= 1
        /\ suite.tests[1].name = "Code Execution"
        /\ \A k \in 1..Len(suite.tests) :
              Cardinality({s \in {PASSED, FAILED, SKIPPED, ERROR} :
                              suite.tests[k].status = s}) = 1

\* The execution raised: one error and the skipped analyses.
C25_Witness ==
    /\ Returned
    /\ suite.errors = 1
    /\ suite.skipped = Len(suite.tests) - 1
    /\ suite.skipped > 0

\* Results of every status but SKIPPED in one run.
C25_WitnessMixed ==
    /\ Returned
    /\ suite.passed > 1
    /\ suite.failed > 0
    /\ suite.errors > 0
    /\ suite.skipped = 0
    /\ Len(suite.tests) = 5

(***************************************************************************)
(* Properties of the support set of the stability check.                   *)
(***************************************************************************)
Floating ==
    tests[1].message = "No parts found touching the ground (floating object?)"

\* C26: whenever the scene has at least one part and the total volume is
\* positive, the support set is not empty: the result 'No parts found
\* touching the ground (floating object?)' is never produced, and when the
\* geometry can be read the verdict is taken over a base.
C26_SupportSetNeverEmpty ==
    (Checked /\ Len(SceneSolids) >= 1 /\ PositiveParts(SceneSolids) # {}) =>
        /\ ~ Floating
        /\ GeometryReadable(SceneSolids) =>
              /\ OnGround(SceneSolids) # {}
              /\ tests[1].status \in {PASSED, FAILED}
              /\ tests[1].details # NoDetails
              /\ tests[1].details.base_bounds.x_range[1]
                    <= tests[1].details.base_bounds.x_range[2]

\* A scene all of whose parts start more than 1.0 mm above z = 0.
C26_Witness ==
    /\ Checked
    /\ Len(SceneSolids) >= 1
    /\ PositiveParts(SceneSolids) # {}
    /\ GeometryReadable(SceneSolids)
    /\ \A i \in 1..Len(SceneSolids) : SceneSolids[i].bb[5] > ground_tolerance
    /\ tests[1].status = PASSED

(***************************************************************************)
(* Properties of a run on an empty scene.                                  *)
(***************************************************************************)
\* The design code ran, bound `result`, and the scene yields no part.
EmptySceneRun ==
    /\ Returned
    /\ code.outcome = "result bound"
    /\ _extract_solids(code.scene) = << >>

\* C27: when the code executes successfully but the scene yields zero
\* parts, Catalog is SKIPPED, Intersection is PASSED, Stability is SKIPPED
\* and Connectivity is SKIPPED; failed = 0, errors = 0 and success is true.
C27_EmptySceneIsSuccess ==
    EmptySceneRun =>
        /\ Len(suite.tests) = 5
        /\ [k \in 1..5 |-> suite.tests[k].name]
              = <<"Code Execution">> \o AnalysisNames
        /\ [k \in 1..5 |-> suite.tests[k].status]
              = <<PASSED, SKIPPED, PASSED, SKIPPED, SKIPPED>>
        /\ suite.failed = 0
        /\ suite.errors = 0
        /\ suite.success

\* An empty compound and an object of no known type both yield no part.
C27_Witness ==
    /\ EmptySceneRun
    /\ code.scene.shape = "Compound"
    /\ suite.passed = 2
    /\ suite.skipped = 3

C27_WitnessUnknown ==
    /\ EmptySceneRun
    /\ code.scene = UnknownResult
    /\ suite.success

(***************************************************************************)
(* Properties of a PASSED catalog verdict.                                 *)
(***************************************************************************)
CatalogPassed == pc = "checked" /\ tests[1].status = PASSED

\* Part i was classified as a beam of valid length or a sheet of valid size.
Conforming(i) ==
    /\ Measured(i)
    /\ \/ IsBeamVariant(ClassOf(i), parts_library) /\ ClassOf(i).valid_length
       \/ IsSheetVariant(ClassOf(i)) /\ ClassOf(i).valid_size

\* C28 as stated: whenever test_parts_in_library returns PASSED, every part
\* returned by _extract_solids was classified and is a beam with
\* valid_length = true or a sheet with valid_size = true, and parts_analyzed
\* equals the number of extracted parts.
C28_PassedMeansAllPartsConform ==
    CatalogPassed =>
        /\ \A i \in 1..NumParts : Conforming(i)
        /\ tests[1].details.parts_analyzed = NumParts

\* C28 as amended: whenever test_parts_in_library returns PASSED, every part
\* whose bounding dimensions could be obtained was classified and is a beam
\* with valid_length = true or a sheet with valid_size = true, and
\* parts_analyzed is the number of those parts; the listed parts are those
\* parts, in part order.
C28_PassedMeansMeasuredPartsConform ==
    CatalogPassed =>
        /\ \A i \in 1..NumParts : Measured(i) => Conforming(i)
        /\ tests[1].details.parts_analyzed
              = Cardinality({i \in 1..NumParts : Measured(i)})
        /\ Len(tests[1].details.parts) = tests[1].details.parts_analyzed
        /\ \A k \in 1..Len(tests[1].details.parts) :
              /\ Measured(tests[1].details.parts[k].index)
              /\ tests[1].details.parts[k].classification
                    = ClassOf(tests[1].details.parts[k].index)

\* A PASSED verdict over a conforming part and a part that was left out.
C28_Witness ==
    /\ CatalogPassed
    /\ NumParts >= 2
    /\ tests[1].details.parts_analyzed >= 1
    /\ \E i \in 1..NumParts : ~ Measured(i)
    /\ \E i \in 1..NumParts : Conforming(i) /\ IsSheetVariant(ClassOf(i))

(***************************************************************************)
(* SpecBFS: test_connectivity on a scene of up to MaxGraphParts parts, with *)
(* the while loop of lines 697-702 taken one iteration at a time; traversal *)
(* holds adj, queue and visited, the parts appended to the queue so far    *)
(* (enqueued, in order) and the number of iterations done (popped).        *)
(***************************************************************************)
\* No call of test_connectivity has been made yet.
InitBFS ==
    /\ InitAnalysis(BOOLEAN)
    /\ result = NoScene

\* The scenes of k boxes lying in one another, with any kernel answer for
\* the distance of each pair.
GraphScenes(k) ==
    {Compound([i \in 1..k |-> NearBox], NoOverlaps(k), dist) :
        dist \in [Pairs(k) -> DistanceAnswers]}

\* Lines 664-679: called with fewer than two parts, no graph is built.
ReturnWithoutGraph ==
    /\ pc = "check"
    /\ \E k \in 0..1 : \E scene \in GraphScenes(k) :
          /\ result' = scene
          /\ tests' = Append(tests, test_connectivity(scene))
    /\ invoked' = Append(invoked, "test_connectivity")
    /\ pc' = "checked"
    /\ UNCHANGED <<parts_library, HAS_OCP, sorted_dims, classification, suite,
                   code, extracted, first_run, is_safe, exec_globals, traversal>>

\* Lines 681-695: called with two parts or more: the adjacency lists, then
\* queue = [0], visited[0] = True (parts are numbered from 1 here).
BuildGraph ==
    /\ pc = "check"
    /\ \E k \in 2..MaxGraphParts : \E scene \in GraphScenes(k) :
          /\ result' = scene
          /\ traversal' = [adj      |-> Adjacency(scene, Len(_extract_solids(scene))),
                           queue    |-> <<1>>,
                           visited  |-> {1},
                           enqueued |-> <<1>>,
                           popped   |-> 0]
    /\ invoked' = Append(invoked, "test_connectivity")
    /\ pc' = "while queue"
    /\ UNCHANGED <<parts_library, HAS_OCP, sorted_dims, classification, tests,
                   suite, code, extracted, first_run, is_safe, exec_globals>>

\* Lines 697-702: one iteration of the while loop.
VisitNext ==
    /\ pc = "while queue"
    /\ traversal.queue # << >>
    /\ LET u   == Head(traversal.queue)
           new == Unvisited(traversal.adj[u], traversal.visited, 1)
       IN  traversal' =
               [traversal EXCEPT
                   !.queue    = Tail(@) \o new,
                   !.visited  = @ \cup {new[k] : k \in 1..Len(new)},
                   !.enqueued = @ \o new,
                   !.popped   = @ + 1]
    /\ UNCHANGED <<parts_library, HAS_OCP, sorted_dims, classification, result, tests,
                   invoked, suite, code, extracted, first_run, is_safe, exec_globals,
                   pc>>

\* Lines 704-732: the queue is empty, the verdict is returned.
ReturnVerdict ==
    /\ pc = "while queue"
    /\ traversal.queue = << >>
    /\ tests' = Append(tests, test_connectivity(result))
    /\ pc' = "checked"
    /\ UNCHANGED <<parts_library, HAS_OCP, sorted_dims, classification, result, invoked,
                   suite, code, extracted, first_run, is_safe, exec_globals, traversal>>

NextBFS ==
    \/ ReturnWithoutGraph
    \/ BuildGraph
    \/ VisitNext
    \/ ReturnVerdict

SpecBFS == InitBFS /\ [][NextBFS]_vars

(***************************************************************************)
(* Properties of the traversal.                                            *)
(***************************************************************************)
Members(q) == {q[k] : k \in 1..Len(q)}

NoRepeat(q) == \A k, l \in 1..Len(q) : k # l => q[k] # q[l]

\* The graph is undirected and has no loops; no list names a part twice.
SymmetricNoSelfEdges(adj) ==
    \A u \in DOMAIN adj :
        /\ NoRepeat(adj[u])
        /\ u \notin Members(adj[u])
        /\ \A v \in Members(adj[u]) : v \in DOMAIN adj /\ u \in Members(adj[v])

\* C29: the breadth-first traversal terminates for every adjacency graph
\* over n >= 2 parts: a part is marked visited exactly when it is appended
\* to the queue and no part is appended twice, every iteration of the loop
\* removes one appended part, so that there are at most n iterations, after
\* which the queue is empty; the first part is always visited; the
\* adjacency lists are symmetric and have no self-edges.
C29_TraversalBounded ==
    traversal # None =>
        LET n == Len(traversal.adj)
        IN  /\ n >= 2
            /\ SymmetricNoSelfEdges(traversal.adj)
            /\ 1 \in traversal.visited
            /\ traversal.visited \subseteq 1..n
            /\ NoRepeat(traversal.enqueued)
            /\ Members(traversal.enqueued) = traversal.visited
            /\ traversal.popped + Len(traversal.queue) = Len(traversal.enqueued)
            /\ traversal.popped <= n
            /\ pc \in {"while queue", "checked"}
            /\ pc = "checked" =>
                  /\ traversal.queue = << >>
                  /\ traversal.popped = Cardinality(traversal.visited)
                  /\ traversal.visited = BFS(traversal.adj, <<1>>, {1})

\* A chain 1 - 2 - 3 traversed to its end.
C29_Witness ==
    /\ pc = "checked"
    /\ traversal # None
    /\ Len(traversal.adj) = 3
    /\ traversal.adj[1] = <<2>>
    /\ traversal.adj[2] = <<1, 3>>
    /\ traversal.enqueued = <<1, 2, 3>>
    /\ traversal.popped = 3

\* The call runs on (no step of it waits for anything), and so it returns.
SpecBFSFair == SpecBFS /\ WF_vars(NextBFS)

TraversalReturns == <>(pc = "checked")

(***************************************************************************)
(* Properties of the reported margin.                                      *)
(***************************************************************************)
\* min(margin_x, margin_y) before rounding, times the total volume: the
\* least signed distance of the centre of mass from a side of the bounding
\* rectangle of the support parts' footprints.
UnroundedMargin(solids) ==
    LET V  == TotalVolume(solids)
        G  == OnGround(solids)
        x0 == SetMin({solids[i].bb[1] : i \in G})
        x1 == SetMax({solids[i].bb[2] : i \in G})
        y0 == SetMin({solids[i].bb[3] : i \in G})
        y1 == SetMax({solids[i].bb[4] : i \in G})
    IN  SetMin({Moment(solids, 1) - x0 * V, x1 * V - Moment(solids, 1),
                Moment(solids, 2) - y0 * V, y1 * V - Moment(solids, 2)})

\* The check reached its verdict over a base.
VerdictOverBase ==
    /\ Checked
    /\ TotalVolume(SceneSolids) > 0
    /\ GeometryReadable(SceneSolids)

\* C30: the unrounded margin min(margin_x, margin_y) is >= 0 exactly when
\* the status is PASSED and < 0 exactly when it is FAILED for instability; a
\* PASSED result never carries a negative unrounded margin.
C30_MarginSignIsVerdict ==
    VerdictOverBase =>
        /\ tests[1].details # NoDetails
        /\ tests[1].details.margin = UnroundedMargin(SceneSolids)
        /\ tests[1].status = PASSED <=> UnroundedMargin(SceneSolids) >= 0
        /\ (/\ tests[1].status = FAILED
            /\ tests[1].message
                  = "Design is unstable! Center of Mass is outside the base.")
              <=> UnroundedMargin(SceneSolids) < 0

\* The centre of mass inside the base on y and outside it on x.
C30_Witness ==
    /\ VerdictOverBase
    /\ tests[1].status = FAILED
    /\ tests[1].details.margin < 0
    /\ \E i \in OnGround(SceneSolids) :
          /\ SceneSolids[i].bb[3] * TotalVolume(SceneSolids) < Moment(SceneSolids, 2)
          /\ SceneSolids[i].bb[4] * TotalVolume(SceneSolids) > Moment(SceneSolids, 2)

\* The centre of mass exactly on a side of the base: margin 0, PASSED.
C30_WitnessOnEdge ==
    /\ VerdictOverBase
    /\ tests[1].status = PASSED
    /\ tests[1].details.margin = 0

====
